---- MODULE Spec2Model ----
(***************************************************************************)
(* clipdrop: the durable job pipeline.                                     *)
(*   JobStore  (src/src/job_store.py)     file-backed queue, dedup, retry  *)
(*   Worker    (src/src/worker.py)        claim -> download -> mark -> POST*)
(*   Bot       (src/src/telegram_bot.py)  callback receiver, event dedup   *)
(*                                                                         *)
(* Every JobStore operation runs under file_lock(lock_file), so each is    *)
(* one atomic step.  The queue file is read only through                   *)
(* _materialize_jobs_locked (last record per job_id wins) and _count_lines,*)
(* so it is represented by its materialization `jobs`, the order in which  *)
(* the job_ids first appear in it (`order`, the iteration order of the     *)
(* materialized dict) and its number of lines (`queue_lines`).             *)
(***************************************************************************)
EXTENDS Integers, Sequences, FiniteSets, TLC

\* ------------------------------------------------------------------ bounds
MaxJobs == 2            \* job_ids uuid4 can draw
MaxFaults == 1          \* store-write faults in one behaviour
MaxBotRestarts == 1     \* restarts of the bot process in one behaviour
CompactAfterLines == 4  \* stands for compact_after_lines (1000 by default)
EventIdWindow == 2      \* stands for deque(maxlen=5000)
MaxHttpThreads == 2     \* request threads of the ThreadingHTTPServer at work at once
MaxAccepted == 3        \* events the HTTP threads queue in one behaviour
MaxClock == 1           \* the latest time at which a POST /jobs request is held up
MaxMutations == 6       \* lines the processes append to the queue file in one behaviour
MaxBots == 3            \* telegram-bot processes started on one lock file
MaxSeen == 4            \* callback requests the bot accepts one after the other
MaxWorkers == 2         \* worker processes on one store
MaxRaises == 1          \* I/O exceptions that leave store operations in one behaviour
MaxLockAppends == 2     \* lines appended to the queue file while exceptions are raised

\* ------------------------------------------------------- program constants
RETRIES == 3            \* _send_callback_with_retries(retries=3)
MAX_ATTEMPTS == 2       \* config.max_attempts default (minimum 1)

STATUS_QUEUED == "queued"
STATUS_RUNNING == "running"
STATUS_DONE == "done"
STATUS_FAILED == "failed"
ACTIVE_STATUSES == {STATUS_QUEUED, STATUS_RUNNING}
TERMINAL_STATUSES == {STATUS_DONE, STATUS_FAILED}

\* ------------------------------------------------------------ url_extractors
\* A URL is kept as urlparse splits it: scheme, netloc (userinfo, "www.",
\* the rest of the host, port), path, query and fragment, and the trailing
\* punctuation of the text it was found in.  Each part is the sequence of the
\* pieces of text the code's tests tell apart, so that endswith, startswith,
\* split and `in` see the pieces they see in the string; the query is the
\* list of pairs parse_qsl makes of it.
TRACKING_QUERY_KEYS == {"si", "feature", "igshid"}

RECURSIVE join(_)
\* the string the pieces make
join(pieces) == IF pieces = <<>> THEN "" ELSE Head(pieces) \o join(Tail(pieces))

\* str.lower() on the pieces that have capitals
str_lower(text) ==
  CASE text = "HTTP" -> "http"
    [] text = "WWW." -> "www."
    [] text = "TikTok.com" -> "tiktok.com"
    [] text = "STATUS" -> "status"
    [] text = "P" -> "p"
    [] text = "SI" -> "si"
    [] text = "UTM_source" -> "utm_source"
    [] OTHER -> text

lower_all(pieces) == [ i \in 1..Len(pieces) |-> str_lower(pieces[i]) ]

\* the place of the first piece equal to mark, 0 if there is none
find(pieces, mark) ==
  IF \E i \in 1..Len(pieces) : pieces[i] = mark
  THEN CHOOSE i \in 1..Len(pieces) :
         pieces[i] = mark /\ \A j \in 1..(i - 1) : pieces[j] # mark
  ELSE 0

\* url.strip().rstrip(").,;!?\"'")
_clean_candidate(url) == [ url EXCEPT !.tail = "" ]

\* parsed.netloc
netloc(url) == url.userinfo \o url.www \o url.host \o url.port

_normalize_host_keeps_www(netloc_pieces) ==
  LET host == lower_all(netloc_pieces)
      at == find(host, "@")
      host1 == IF at > 0 THEN SubSeq(host, at + 1, Len(host)) ELSE host
      colon == find(host1, ":")
  IN IF colon > 0 THEN SubSeq(host1, 1, colon - 1) ELSE host1

_normalize_host(netloc_pieces) ==
  LET host == lower_all(netloc_pieces)
      at == find(host, "@")
      host1 == IF at > 0 THEN SubSeq(host, at + 1, Len(host)) ELSE host
      colon == find(host1, ":")
      host2 == IF colon > 0 THEN SubSeq(host1, 1, colon - 1) ELSE host1
  IN IF host2 # <<>> /\ host2[1] = "www." THEN Tail(host2) ELSE host2

\* lower_key.startswith("utm_")
startswith_utm(lower_key) == lower_key \in {"utm_", "utm_source"}

\* the order of str on the keys and values that are kept
SortedTexts == <<"1", "2", "a", "b", "x", "y">>
text_less(a, b) == find(SortedTexts, a) < find(SortedTexts, b)

\* (item[0], item[1]) of one pair before that of the other
pair_less(a, b) == text_less(a[1], b[1]) \/ (a[1] = b[1] /\ text_less(a[2], b[2]))

RECURSIVE sort_pairs(_)
\* kept.sort(key=lambda item: (item[0], item[1]))
sort_pairs(kept) ==
  IF kept = <<>> THEN <<>>
  ELSE LET least == CHOOSE i \in 1..Len(kept) :
                      \A j \in 1..Len(kept) : ~pair_less(kept[j], kept[i])
       IN <<kept[least]>>
            \o sort_pairs(SubSeq(kept, 1, least - 1) \o SubSeq(kept, least + 1, Len(kept)))

RECURSIVE urlencode(_)
\* urlencode(kept, doseq=True)
urlencode(kept) ==
  IF kept = <<>> THEN ""
  ELSE kept[1][1] \o "=" \o kept[1][2]
         \o (IF Len(kept) > 1 THEN "&" ELSE "") \o urlencode(Tail(kept))

_strip_tracking_query(query) ==
  LET tracked(pair) == \/ startswith_utm(str_lower(pair[1]))
                       \/ str_lower(pair[1]) \in TRACKING_QUERY_KEYS
      kept == SelectSeq(query, LAMBDA pair : ~tracked(pair))
  IN urlencode(sort_pairs(kept))

RECURSIVE rstrip_slash(_)
\* path.rstrip("/")
rstrip_slash(path) ==
  IF path # <<>> /\ path[Len(path)] = "/" THEN rstrip_slash(SubSeq(path, 1, Len(path) - 1))
  ELSE path

\* parsed.path or "/"
path_or_root(url) == IF url.path = <<>> THEN <<"/">> ELSE url.path

\* urlunparse(("https", host, path, "", query, ""))
normalize_url(url) ==
  LET host == _normalize_host(netloc(url))
      path == IF path_or_root(url) # <<"/">>
              THEN (IF rstrip_slash(path_or_root(url)) = <<>> THEN <<"/">>
                    ELSE rstrip_slash(path_or_root(url)))
              ELSE <<"/">>
      query == _strip_tracking_query(url.query)
  IN "https" \o "://" \o join(host) \o join(path)
       \o (IF query = "" THEN "" ELSE "?" \o query)

\* host.endswith(suffix), the suffix being one piece of the host
endswith(host, suffix) == host # <<>> /\ host[Len(host)] = suffix

_is_tiktok(host) == endswith(host, "tiktok.com")

_is_instagram(host, path) ==
  /\ endswith(host, "instagram.com")
  /\ LET lowered == lower_all(path)
     IN \E i \in 1..(Len(lowered) - 2) :
          /\ lowered[i] = "/"
          /\ lowered[i + 1] \in {"reel", "p", "tv"}
          /\ lowered[i + 2] = "/"

\* the piece begins with a digit
startswith_digit(text) == text \in {"12", "12ab"}

\* TWITTER_STATUS_RE.match(path): ^/[^/]+/status/\d+ with re.IGNORECASE
TWITTER_STATUS_RE_match(path) ==
  /\ Len(path) >= 6
  /\ path[1] = "/"
  /\ path[2] # "/"
  /\ path[3] = "/"
  /\ str_lower(path[4]) = "status"
  /\ path[5] = "/"
  /\ startswith_digit(path[6])

_is_x_status(host, path) ==
  /\ join(host) \in {"x.com", "twitter.com", "mobile.twitter.com"}
  /\ TWITTER_STATUS_RE_match(path)

\* classify_url: <<>> for None, else the one ExtractedUrl
classify_url(url) ==
  LET cleaned == _clean_candidate(url)
      host == _normalize_host(netloc(cleaned))
      path == path_or_root(cleaned)
      platform == IF _is_tiktok(host) THEN "tiktok"
                  ELSE IF _is_instagram(host, path) THEN "instagram"
                  ELSE IF _is_x_status(host, path) THEN "x"
                  ELSE "None"
  IN IF str_lower(cleaned.scheme) \notin {"http", "https"} THEN <<>>
     ELSE IF platform = "None" THEN <<>>
     ELSE << [ input_url |-> cleaned, normalized_url |-> normalize_url(cleaned),
               platform |-> platform ] >>

\* the parts the URLs are made of
Schemes == {"https", "HTTP", "ftp"}
UserInfos == { <<>>, <<"u", ":", "p", "@">> }
Wwws == { <<>>, <<"WWW.">> }
Hosts ==
  { <<"tiktok.com">>, <<"TikTok.com">>, <<"not", "tiktok.com">>, <<"vm.", "tiktok.com">>,
    <<"instagram.com">>, <<"x.com">>, <<"twitter.com">>, <<"mobile.", "twitter.com">>,
    <<"m.", "x.com">>, <<"example.com">> }
Ports == { <<>>, <<":", "443">> }
Paths ==
  { <<>>, <<"/", "p", "/", "abc">>, <<"/", "P", "/", "abc", "/">>, <<"/", "reel">>,
    <<"/", "u", "/", "status", "/", "12">>, <<"/", "u", "/", "STATUS", "/", "12ab", "/">>,
    <<"/", "status", "/", "12">> }
TrackingPairs == { <<"SI", "x">>, <<"UTM_source", "y">>, <<"igshid", "1">> }
Queries ==
  { <<>>, << <<"b", "2">>, <<"a", "1">> >>, << <<"a", "1">>, <<"SI", "x">>, <<"b", "2">> >> }
Fragments == {"", "frag"}
Tails == {"", ")."}

RawUrls ==
  [ scheme : Schemes, userinfo : UserInfos, www : Wwws, host : Hosts, port : Ports,
    path : Paths, query : Queries, fragment : Fragments, tail : Tails ]

Url(host, path, query) ==
  [ scheme |-> "https", userinfo |-> <<>>, www |-> <<>>, host |-> host, port |-> <<>>,
    path |-> path, query |-> query, fragment |-> "", tail |-> "" ]

TikTokCore == Url(<<"tiktok.com">>, <<"/", "p", "/", "abc">>, << <<"b", "2">>, <<"a", "1">> >>)
XCore == Url(<<"x.com">>, <<"/", "u", "/", "status", "/", "12">>, <<>>)

\* a TikTok URL, a status on x.com and the same status on twitter.com
Cores ==
  { TikTokCore, XCore, Url(<<"twitter.com">>, <<"/", "u", "/", "status", "/", "12">>, <<>>) }

\* the URLs of the requests to POST /jobs: the TikTok URL, the same written
\* in another way, the status on x.com, and a URL that is not supported
PostedUrls ==
  { TikTokCore, XCore,
    [ scheme |-> "HTTP", userinfo |-> <<>>, www |-> <<"WWW.">>, host |-> <<"TikTok.com">>,
      port |-> <<":", "443">>, path |-> <<"/", "p", "/", "abc", "/">>,
      query |-> << <<"a", "1">>, <<"SI", "x">>, <<"b", "2">> >>, fragment |-> "frag",
      tail |-> "" ],
    Url(<<"example.com">>, <<"/", "p", "/", "abc">>, <<>>) }

\* the normalized_url values of these
NormalizedPosted ==
  { classify_url(u)[1].normalized_url :
      u \in { v \in Cores \cup PostedUrls : classify_url(v) # <<>> } }

\* ------------------------------------------------------------ value spaces
JobIds == 1..MaxJobs
Urls == {"u1", "u2"} \cup NormalizedPosted   \* normalized_url values
NoThread == 0 - 1                    \* thread_id = None
None == "None"                       \* null result / error / callback_error
NoEventId == <<>>                    \* last_event_id = None
Results_or_null == {"file", None}

Results == {"file"}                  \* what download_url returns
Traceback == "traceback"             \* traceback.format_exc()
CallbackError == "callback_error"    \* str(exc) of the last failed POST
CallbackSecret == "secret"
WORKER_ID == "host:pid"               \* build_worker_id()

\* (chat_id, message_id, thread_id) of the callers
Subscribers ==
  { [chat_id |-> 1, message_id |-> 10, thread_id |-> NoThread],
    [chat_id |-> 1, message_id |-> 10, thread_id |-> 7] }

\* the lists enqueue_many is called with: one URL, two URLs, one URL twice
\* (a request for "u2" comes with one for "u1")
Inputs == { <<"u1">>, <<"u1", "u2">>, <<"u1", "u1">> }

SeqToSet(s) == { s[i] : i \in 1..Len(s) }

\* ---------------------------------------------------------------- JobStore
VARIABLES store, clock, max_attempts

\* event_id = f"{job_id}:{status}:{attempts}": job_id is a uuid (no colon),
\* status a fixed word, attempts decimal digits, so the string determines the
\* three components and is kept as the triple.
EventId(job_id, status, attempts) == <<job_id, status, attempts>>

InitStore ==
  [ jobs |-> <<>>, order |-> <<>>, queue_lines |-> 0, results_file |-> <<>> ]

_same_subscriber_never(a, b) == FALSE

_same_subscriber(a, b) ==
  /\ a.chat_id = b.chat_id
  /\ a.message_id = b.message_id
  /\ a.thread_id = b.thread_id

_append_subscriber_if_missing(subscribers, subscriber) ==
  IF \E i \in 1..Len(subscribers) : _same_subscriber(subscribers[i], subscriber)
  THEN [subscribers |-> subscribers, changed |-> FALSE]
  ELSE [subscribers |-> Append(subscribers, subscriber), changed |-> TRUE]

\* _append_jsonl(self.queue_file, job) as seen through materialization
_append_jsonl_queue(s, job) ==
  [ s EXCEPT
      !.jobs = [ id \in DOMAIN s.jobs \cup {job.job_id} |->
                   IF id = job.job_id THEN job ELSE s.jobs[id] ],
      !.order = IF job.job_id \in DOMAIN s.jobs THEN @ ELSE Append(@, job.job_id),
      !.queue_lines = @ + 1 ]

_append_jsonl_results_never(s, row) == s

_append_jsonl_results(s, row) ==
  [ s EXCEPT !.results_file = Append(@, row) ]

\* the sort key of _compact_latest_by_job_id: (created_at, updated_at, job_id)
CompactKeyLess(a, b) ==
  \/ a.created_at < b.created_at
  \/ a.created_at = b.created_at /\ a.updated_at < b.updated_at
  \/ a.created_at = b.created_at /\ a.updated_at = b.updated_at /\ a.job_id < b.job_id

\* sorted(latest.values(), key=...) for a set of rows with distinct job_ids
RECURSIVE SortedRows(_)
SortedRows(rows) ==
  IF rows = {} THEN <<>>
  ELSE LET first == CHOOSE r \in rows : \A o \in rows \ {r} : CompactKeyLess(r, o)
       IN <<first>> \o SortedRows(rows \ {first})

\* _compact_latest_by_job_id(self.results_file)
_compact_latest_by_job_id(rows) ==
  IF rows = <<>> THEN rows
  ELSE LET latest == { rows[i] : i \in { k \in 1..Len(rows) :
                          \A j \in (k + 1)..Len(rows) : rows[j].job_id # rows[k].job_id } }
       IN SortedRows(latest)

\* _compact_latest_by_job_id(self.queue_file): one line per job_id, sorted
_compact_queue(s) ==
  IF s.queue_lines = 0 THEN s
  ELSE LET sorted == SortedRows({ s.jobs[id] : id \in DOMAIN s.jobs })
       IN [ s EXCEPT !.order = [ i \in 1..Len(sorted) |-> sorted[i].job_id ],
                     !.queue_lines = Len(sorted) ]

_maybe_compact_locked(s) ==
  LET s1 == IF s.queue_lines > CompactAfterLines THEN _compact_queue(s) ELSE s
  IN IF Len(s1.results_file) > CompactAfterLines
     THEN [ s1 EXCEPT !.results_file = _compact_latest_by_job_id(@) ]
     ELSE s1

ActiveByUrl_any_status(s) ==
  [ u \in Urls |->
      LET at == { i \in 1..Len(s.order) : s.jobs[s.order[i]].normalized_url = u }
      IN IF at = {} THEN 0
         ELSE s.order[CHOOSE i \in at : \A j \in at : j <= i] ]

\* active_by_url: the dict comprehension keeps, per normalized_url, the last
\* active job in iteration order of the materialized dict; 0 stands for a miss
ActiveByUrl(s) ==
  [ u \in Urls |->
      LET at == { i \in 1..Len(s.order) :
                    /\ s.jobs[s.order[i]].normalized_url = u
                    /\ s.jobs[s.order[i]].status \in ACTIVE_STATUSES }
      IN IF at = {} THEN 0
         ELSE s.order[CHOOSE i \in at : \A j \in at : j <= i] ]

NewJob(job_id, url, now, subscriber_row, maxAttempts) ==
  [ job_id |-> job_id,
    normalized_url |-> url,
    status |-> STATUS_QUEUED,
    attempts |-> 0,
    max_attempts |-> maxAttempts,
    created_at |-> now,
    updated_at |-> now,
    result |-> None,
    error |-> None,
    subscribers |-> <<subscriber_row>>,
    notification |-> [ last_event_id |-> NoEventId,
                       callback_attempts |-> 0,
                       callback_error |-> None ],
    claimed_by |-> None ]

OutputRow_status_queued(job, deduplicated) ==
  [ job_id |-> job.job_id, status |-> STATUS_QUEUED,
    deduplicated |-> deduplicated, normalized_url |-> job.normalized_url ]

OutputRow(job, deduplicated) ==
  [ job_id |-> job.job_id, status |-> job.status,
    deduplicated |-> deduplicated, normalized_url |-> job.normalized_url ]

\* the for-loop of enqueue_many from item i on; ids are the uuid4 draws left,
\* now the value read before the lock is taken and self_now the self._now()
\* of the loop
RECURSIVE enqueue_items(_, _, _, _, _, _, _, _, _, _)
enqueue_items(s, active_by_url, inputs, i, subscriber_row, now, self_now, maxAttempts, ids, output_rows) ==
  IF i > Len(inputs)
  THEN [ store |-> _maybe_compact_locked(s), rows |-> output_rows ]
  ELSE
    LET url == inputs[i]
        existing == active_by_url[url]
    IN IF existing # 0
       THEN LET merged == _append_subscriber_if_missing(
                            s.jobs[existing].subscribers, subscriber_row)
                updated == [ s.jobs[existing] EXCEPT
                               !.subscribers = merged.subscribers,
                               !.updated_at = self_now ]
                s2 == IF merged.changed THEN _append_jsonl_queue(s, updated) ELSE s
            IN enqueue_items(s2, active_by_url, inputs, i + 1, subscriber_row, now, self_now,
                             maxAttempts, ids,
                             Append(output_rows, OutputRow(s2.jobs[existing], TRUE)))
       ELSE LET job == NewJob(Head(ids), url, now, subscriber_row, maxAttempts)
            IN enqueue_items(_append_jsonl_queue(s, job),
                             [ active_by_url EXCEPT ![url] = job.job_id ],
                             inputs, i + 1, subscriber_row, now, self_now, maxAttempts, Tail(ids),
                             Append(output_rows, OutputRow(job, FALSE)))

enqueue_many(s, inputs, subscriber, now, self_now, maxAttempts, ids) ==
  IF inputs = <<>> THEN [ store |-> s, rows |-> <<>> ]
  ELSE enqueue_items(s, ActiveByUrl(s), inputs, 1, subscriber, now, self_now, maxAttempts, ids, <<>>)

\* how many uuid4 draws enqueue_many(inputs) makes in store s
NewJobsNeeded(s, inputs) ==
  Cardinality({ u \in SeqToSet(inputs) : ActiveByUrl(s)[u] = 0 })


\* the sort key of claim_next: (created_at, job_id)
ClaimKeyLess_newest(a, b) ==
  \/ a.created_at > b.created_at
  \/ a.created_at = b.created_at /\ a.job_id < b.job_id

ClaimKeyLess(a, b) ==
  \/ a.created_at < b.created_at
  \/ a.created_at = b.created_at /\ a.job_id < b.job_id

Queued_or_running(s) == { id \in DOMAIN s.jobs : s.jobs[id].status \in ACTIVE_STATUSES }

Queued(s) == { id \in DOMAIN s.jobs : s.jobs[id].status = STATUS_QUEUED }

claim_attempts_same(attempts) == attempts

claim_attempts(attempts) == attempts + 1

\* returns found = FALSE for None
claim_next(s, worker_id, now) ==
  IF Queued(s) = {}
  THEN [ store |-> s, found |-> FALSE, job_id |-> 0 ]
  ELSE
    LET first == CHOOSE id \in Queued(s) :
                   \A o \in Queued(s) \ {id} : ClaimKeyLess(s.jobs[id], s.jobs[o])
        job == [ s.jobs[first] EXCEPT
                   !.status = STATUS_RUNNING,
                   !.attempts = claim_attempts(@),
                   !.updated_at = now,
                   !.claimed_by = worker_id,
                   !.error = None ]
    IN [ store |-> _maybe_compact_locked(_append_jsonl_queue(s, job)),
         found |-> TRUE, job_id |-> first ]

mark_done(s, job_id, result, now) ==
  IF job_id \notin DOMAIN s.jobs
  THEN [ store |-> s, found |-> FALSE ]
  ELSE
    LET job == [ s.jobs[job_id] EXCEPT
                   !.status = STATUS_DONE,
                   !.updated_at = now,
                   !.result = result,
                   !.error = None ]
        row == [ job_id |-> job_id, status |-> STATUS_DONE, result |-> result,
                 created_at |-> job.created_at, updated_at |-> now ]
    IN [ store |-> _maybe_compact_locked(
                     _append_jsonl_results(_append_jsonl_queue(s, job), row)),
         found |-> TRUE ]

may_retry_inclusive(attempts, maxAttempts) == attempts <= maxAttempts

may_retry(attempts, maxAttempts) == attempts < maxAttempts

\* next_status = None when the job is unknown
\* `job = dict(current)`: the re-queued record carries the created_at it had
requeued_created_at_now(current, now) == now

requeued_created_at(current, now) == current.created_at

mark_failed_or_retry(s, job_id, error, now) ==
  IF job_id \notin DOMAIN s.jobs
  THEN [ store |-> s, found |-> FALSE, next_status |-> None ]
  ELSE
    LET current == s.jobs[job_id]
        job == [ current EXCEPT !.error = error, !.updated_at = now ]
    IN IF may_retry(current.attempts, current.max_attempts)
       THEN [ store |-> _maybe_compact_locked(
                          _append_jsonl_queue(s, [ job EXCEPT
                            !.status = STATUS_QUEUED,
                            !.created_at = requeued_created_at(current, now) ])),
              found |-> TRUE, next_status |-> STATUS_QUEUED ]
       ELSE
         LET row == [ job_id |-> job_id, status |-> STATUS_FAILED, error |-> error,
                      attempts |-> current.attempts,
                      max_attempts |-> current.max_attempts,
                      created_at |-> job.created_at, updated_at |-> now ]
         IN [ store |-> _maybe_compact_locked(
                          _append_jsonl_results(
                            _append_jsonl_queue(s, [ job EXCEPT !.status = STATUS_FAILED ]),
                            row)),
              found |-> TRUE, next_status |-> STATUS_FAILED ]

mark_notification_requeues(s, job_id, event_id, callback_error, now) ==
  IF job_id \notin DOMAIN s.jobs
  THEN s
  ELSE
    LET job == [ s.jobs[job_id] EXCEPT
                   !.notification = [ last_event_id |-> event_id,
                                      callback_attempts |-> @.callback_attempts + 1,
                                      callback_error |-> callback_error ],
                   !.status = IF callback_error # None THEN STATUS_QUEUED ELSE @,
                   !.updated_at = now ]
    IN _maybe_compact_locked(_append_jsonl_queue(s, job))

mark_notification(s, job_id, event_id, callback_error, now) ==
  IF job_id \notin DOMAIN s.jobs
  THEN s
  ELSE
    LET job == [ s.jobs[job_id] EXCEPT
                   !.notification = [ last_event_id |-> event_id,
                                      callback_attempts |-> @.callback_attempts + 1,
                                      callback_error |-> callback_error ],
                   !.updated_at = now ]
    IN _maybe_compact_locked(_append_jsonl_queue(s, job))


\* ------------------------------------------------------------------ Worker
VARIABLES wpc, wjob, wpayload, wattempt, wcallback_error, wduplicate

\* run_once:  the run_once argument of run_worker (`--once`)
\* processed: the local of that name; it is read only when run_once is set,
\*            and is kept for such a worker only
VARIABLES run_once, processed

_build_event_payload(job, status) ==
  [ event_id |-> EventId(job.job_id, status, job.attempts),
    job_id |-> job.job_id,
    status |-> status,
    result |-> job.result,
    error |-> job.error,
    subscribers |-> job.subscribers ]

NoPayload ==
  [ event_id |-> NoEventId, job_id |-> 0, status |-> None,
    result |-> None, error |-> None, subscribers |-> <<>> ]

\* --------------------------------------------------------------------- Bot
VARIABLES bot

InitBot == [ event_ids |-> {}, event_id_order |-> <<>>, event_queue |-> <<>> ]

_mark_event_seen_never(b, event_id) ==
  [ bot |-> [ b EXCEPT !.event_id_order = Append(@, event_id),
                       !.event_ids = @ \cup {event_id} ],
    seen |-> FALSE ]

\* popleft() without discard(dropped)
_mark_event_seen_keeps_dropped(b, event_id) ==
  IF event_id \in b.event_ids
  THEN [ bot |-> b, seen |-> TRUE ]
  ELSE
    LET full == Len(b.event_id_order) = EventIdWindow
        kept_order == IF full THEN Tail(b.event_id_order) ELSE b.event_id_order
    IN [ bot |-> [ b EXCEPT !.event_id_order = Append(kept_order, event_id),
                            !.event_ids = @ \cup {event_id} ],
         seen |-> FALSE ]

\* returns seen = TRUE for a duplicate
_mark_event_seen(b, event_id) ==
  IF event_id \in b.event_ids
  THEN [ bot |-> b, seen |-> TRUE ]
  ELSE
    LET full == Len(b.event_id_order) = EventIdWindow
        kept_order == IF full THEN Tail(b.event_id_order) ELSE b.event_id_order
        kept_ids == IF full THEN b.event_ids \ {Head(b.event_id_order)} ELSE b.event_ids
    IN [ bot |-> [ b EXCEPT !.event_id_order = Append(kept_order, event_id),
                            !.event_ids = kept_ids \cup {event_id} ],
         seen |-> FALSE ]

ACCEPTED_STATUSES == {"done", "failed"}

\* str(...).lower() on the status words the callers send
Lower(status) ==
  CASE status = "DONE" -> "done"
    [] status = "Failed" -> "failed"
    [] status = "Started" -> "started"
    [] OTHER -> status

\* `if status not in {"done", "failed"}` passed
accepts(status) == Lower(status) \in ACCEPTED_STATUSES

\* the checks of handle_callback_request before _mark_event_seen: the answer
\* they return, or code 0 when the request passes them
Unauthorized == [ code |-> 401, body |-> "unauthorized" ]
MissingEventId == [ code |-> 400, body |-> "missing event_id" ]
InvalidStatus == [ code |-> 400, body |-> "invalid status" ]
InvalidJson == [ code |-> 400, body |-> "invalid JSON" ]
Ok == [ code |-> 200, body |-> "ok" ]
Duplicate == [ code |-> 200, body |-> "duplicate" ]
Passed == [ code |-> 0, body |-> "" ]

request_checks(token, payload) ==
  IF token # CallbackSecret THEN Unauthorized
  ELSE IF payload.event_id = NoEventId THEN MissingEventId
  ELSE IF ~accepts(payload.status) THEN InvalidStatus
  ELSE Passed

handle_callback_request(b, token, payload) ==
  IF request_checks(token, payload) # Passed
  THEN [ bot |-> b, code |-> request_checks(token, payload).code, duplicate |-> FALSE ]
  ELSE
    LET m == _mark_event_seen(b, payload.event_id)
    IN IF m.seen
       THEN [ bot |-> b, code |-> 200, duplicate |-> TRUE ]
       ELSE [ bot |-> [ m.bot EXCEPT !.event_queue = Append(@, payload) ],
              code |-> 200, duplicate |-> FALSE ]

\* The callback server.  http[t]: request thread t of the ThreadingHTTPServer
\* (pc, the request it serves, the answer it has sent); consumer: the task
\* _consume_events (pc, _event_signal, the events inside handle_job_event,
\* the events whose handle_job_event raised).
VARIABLES http, consumer

HttpThreads == 1..MaxHttpThreads
NoRequest == [ token |-> None, json |-> FALSE, payload |-> NoPayload ]
IdleThread == [ pc |-> "idle", request |-> NoRequest, response |-> Passed ]
InitHttp == [ t \in HttpThreads |-> IdleThread ]
InitConsumer == [ pc |-> "wait", signal |-> FALSE, handling |-> {}, raised |-> {} ]

\* ------------------------------------------------------- history variables
\* emitted:    the payloads the worker has handed to _send_callback_with_retries
\* dispatched: the event_ids the consumer has passed to handle_job_event
\* dispatched_run: those of them the running bot process has passed
\* answered:   <<subscriber, job_id>> for every output row enqueue_many returned
\* downloaded: the jobs for which download_url has returned normally
\* abandoned:  the jobs a worker process held when it exited
\* faults, restarts: the store faults and bot restarts so far
\* accepted_run: the event_ids appended to _event_queue by the running bot process
VARIABLES emitted, dispatched, dispatched_run, answered, downloaded, abandoned,
          faults, restarts, accepted_run

\* A second POST /jobs request (the endpoint is a sync function, run on the
\* thread pool): enqueue_many reads `now` before it takes the file lock, so
\* the request can be held up between the two.
\* api:         where that request is, and the `now` it has read
\* first_lines: the job_ids in the order in which their first line was
\*              appended to the queue file (history: the order of the
\*              materialized dict had the file never been rewritten)
VARIABLES api, first_lines

NoSubscriber == [ chat_id |-> 0, message_id |-> 0, thread_id |-> NoThread ]
\* the list the held-up request asks for
HeldUpInputs == { <<"u1">> }

NoCall == [ pc |-> "idle", inputs |-> <<>>, subscriber |-> NoSubscriber, now |-> 0 ]

store_vars == <<store, clock, max_attempts>>
worker_vars == <<wpc, wjob, wpayload, wattempt, wcallback_error, wduplicate>>
bot_vars == <<bot>>
http_vars == <<http, consumer, accepted_run>>
history_vars == <<emitted, dispatched, dispatched_run, answered, downloaded, abandoned,
                  faults, restarts>>
api_vars == <<api, first_lines>>
once_vars == <<run_once, processed>>

\* ------------------------------------------- telegram-bot processes (main)
\* instances:     where each telegram-bot process is in main, and the error
\*                it ended with
\* instance_lock: the process that holds the flock on the lock file (0: none)
VARIABLES instances, instance_lock

Bots == 1..MaxBots
LOCK_FILE == ".telegram_bot.lock"      \* args.lock_file (default)
NoError == <<>>
instance_vars == <<instances, instance_lock>>

\* TelegramAccessStore: its two files, the flock on its lock file, the calls
\* of the processes that have the store open, and the last update the bot
\* handled with what the handler did
VARIABLES authorized_chats_file, whitelist_file, access_lock, access_calls, last_update

AccessProcs == {1, 2}
UserIds == {7, 8}
BotUserId == 9
GroupChatIds == {-100, -200}
ChannelChatId == -300
access_vars == <<authorized_chats_file, whitelist_file, access_lock, access_calls, last_update>>

\* the queue file line by line, the flock on the store's lock file, the
\* calls of the processes that have the JobStore open, and the number of
\* lines appended so far, which stamps each line with its place in real time
VARIABLES queue_file, store_lock, store_calls, mutations

StoreProcs == {1, 2}
file_vars == <<queue_file, store_lock, store_calls, mutations>>

\* the URL classify_url was last called with and what it returned, and the
\* last request to POST /jobs with its answer
VARIABLES classified, posted

NoUrl == [ scheme |-> "", userinfo |-> <<>>, www |-> <<>>, host |-> <<>>, port |-> <<>>,
           path |-> <<>>, query |-> <<>>, fragment |-> "", tail |-> "" ]
NoRequestYet == [ urls |-> <<>>, status_code |-> 0, detail |-> "", parsed_urls |-> <<>>,
                  rows |-> <<>> ]
\* classify_url before it is called with url
NotCalled(url) == [ url |-> url, called |-> FALSE, item |-> <<>> ]
url_vars == <<classified, posted>>

\* callbacks: for every event_id, what run_worker has done with it so far:
\*   posts       the calls of send_job_event_callback
\*   successes   those of them that returned
\*   last_error  str(exc) of the latest of them (None: it returned)
\*   marks       the calls of store.mark_notification with that event_id
\*   callback_error  the callback_error argument of the latest of them
VARIABLES callbacks
callback_vars == <<callbacks>>

NotPosted == [ posts |-> 0, successes |-> 0, last_error |-> None, marks |-> 0,
              callback_error |-> None ]

\* seen_log:      the event_ids of the callback requests answered 200 without
\*                duplicate, in the order of the answers
\* rejected:      the event_ids of the requests answered 400 or 401
\* last_callback: the last request to POST /internal/job-events and its answer
VARIABLES seen_log, rejected, last_callback
window_vars == <<seen_log, rejected, last_callback>>

\* raised: the I/O exceptions that have left store operations: the process,
\*         the operation, the job it had come to, where it was, and the
\*         number of rows the call had appended
VARIABLES raised
raise_vars == <<raised>>

\* workers:   where each worker process is in run_worker, with the job
\*            claim_next returned to it and the attempts of that record
\* claim_log: <<worker, job_id, attempts>> of every job claim_next has returned
VARIABLES workers, claim_log
pool_vars == <<workers, claim_log>>

Workers == 1..MaxWorkers
IdleWorker == [ pc |-> "idle", job_id |-> 0, attempts |-> 0 ]

aux_vars == <<instance_vars, access_vars, file_vars, url_vars, callback_vars, window_vars,
              raise_vars, pool_vars>>
vars == <<store_vars, worker_vars, bot_vars, history_vars, http_vars, api_vars, once_vars,
          aux_vars>>

\* everything but the arguments of run_worker and of classify_url
InitProcesses ==
  /\ store = InitStore
  /\ clock = 0
  /\ max_attempts \in 1..MAX_ATTEMPTS
  /\ wpc = "idle"
  /\ wjob = 0
  /\ wpayload = NoPayload
  /\ wattempt = 0
  /\ wcallback_error = None
  /\ wduplicate = FALSE
  /\ bot = InitBot
  /\ emitted = <<>>
  /\ dispatched = <<>>
  /\ dispatched_run = <<>>
  /\ answered = {}
  /\ downloaded = {}
  /\ abandoned = {}
  /\ faults = 0
  /\ restarts = 0
  /\ http = InitHttp
  /\ consumer = InitConsumer
  /\ accepted_run = <<>>
  /\ api = NoCall
  /\ first_lines = <<>>
  /\ processed = 0
  /\ instances = [ b \in Bots |-> [ pc |-> "stopped", error |-> NoError ] ]
  /\ instance_lock = 0
  /\ posted = NoRequestYet
  /\ callbacks = <<>>
  /\ seen_log = <<>>
  /\ raised = <<>>
  /\ workers = [ w \in Workers |-> IdleWorker ]
  /\ claim_log = {}
  /\ rejected = {}
  /\ last_callback = [ request |-> NoRequest, code |-> 0, duplicate |-> FALSE ]
  /\ queue_file = <<>>
  /\ store_lock = 0
  /\ store_calls = [ p \in StoreProcs |-> [ pc |-> "idle" ] ]
  /\ mutations = 0
  /\ authorized_chats_file = <<>>
  /\ whitelist_file = <<>>
  /\ access_lock = 0
  /\ access_calls = [ p \in AccessProcs |-> [ pc |-> "idle" ] ]
  /\ last_update = [ handler |-> "none", chat |-> [ type |-> "", id |-> 0 ], user |-> 0,
                    args |-> <<>>, member |-> "", access |-> "", replies |-> <<>>,
                    enqueued |-> [ urls |-> 0, whitelist |-> {} ] ]

\* the worker of the stack runs until it is stopped
Init == InitProcesses /\ run_once = FALSE /\ classified = NotCalled(NoUrl)

\* the worker was started with --once
InitOnce == InitProcesses /\ run_once = TRUE /\ classified = NotCalled(NoUrl)

\* classify_url is about to be called with a URL
InitClassify ==
  /\ InitProcesses
  /\ run_once = FALSE
  /\ \E url \in RawUrls : classified = NotCalled(url)


\* ----------------------------------------------------------------- actions
\* The job_ids uuid4 returns for the n jobs one call creates.  job_ids are
\* compared only between jobs with equal created_at (claim_next, compaction),
\* which are jobs of one call, so the draws of one call come in any order and
\* those of different calls in the order of the calls.
IdDraws(free, n) ==
  IF n = 0 THEN { <<>> }
  ELSE LET a == CHOOSE x \in free : \A y \in free : x <= y
       IN IF n = 1 THEN { <<a>> }
          ELSE LET b == CHOOSE x \in free \ {a} : \A y \in free \ {a} : x <= y
               IN { <<a, b>>, <<b, a>> }

\* the ids uuid4 has not returned yet: no id is drawn twice
FreeJobIds == JobIds \ SeqToSet(first_lines)

\* POST /jobs -> JobStore.enqueue_many
EnqueueCall(inputs, subscriber, ids) ==
  LET r == enqueue_many(store, inputs, subscriber, clock, clock, max_attempts, ids)
  IN /\ store' = r.store
     /\ answered' = answered \cup
          { <<subscriber, r.rows[i].job_id>> : i \in 1..Len(r.rows) }
     /\ first_lines' = first_lines \o ids

\* The wall clock (datetime.now) is read as `clock`; it advances between two
\* calls that create jobs, so the jobs of one call share created_at and those
\* of different calls do not.
Enqueue ==
  /\ \E inputs \in Inputs, subscriber \in Subscribers :
       /\ NewJobsNeeded(store, inputs) <= Cardinality(FreeJobIds)
       /\ \E ids \in IdDraws(FreeJobIds, NewJobsNeeded(store, inputs)) :
            EnqueueCall(inputs, subscriber, ids)
       /\ clock' = IF NewJobsNeeded(store, inputs) > 0 THEN clock + 1 ELSE clock
  /\ UNCHANGED <<max_attempts, aux_vars, once_vars, api, http_vars, worker_vars, bot_vars,
                 emitted, dispatched, dispatched_run, downloaded, abandoned, faults, restarts>>

\* enqueue_many up to the lock (job_store.py lines 136-147) in a request that
\* is then held up: `now` is read, and the clock goes on
EnqueueReadsNowOf(held_up) ==
  /\ api.pc = "idle"
  /\ clock < MaxClock
  /\ \E inputs \in held_up, subscriber \in Subscribers :
       api' = [ pc |-> "lock", inputs |-> inputs, subscriber |-> subscriber, now |-> clock ]
  /\ clock' = clock + 1
  /\ UNCHANGED <<store, max_attempts, aux_vars, once_vars, first_lines, worker_vars, bot_vars, history_vars,
                 http_vars>>

EnqueueReadsNow == EnqueueReadsNowOf(HeldUpInputs)

\* the rest of that call, under the lock: created_at is the `now` read
\* before, the updated_at of a merged subscriber a new self._now()
EnqueueLocked ==
  /\ api.pc = "lock"
  /\ NewJobsNeeded(store, api.inputs) <= Cardinality(FreeJobIds)
  /\ \E ids \in IdDraws(FreeJobIds, NewJobsNeeded(store, api.inputs)) :
       LET r == enqueue_many(store, api.inputs, api.subscriber, api.now, clock,
                             max_attempts, ids)
       IN /\ store' = r.store
          /\ answered' = answered \cup
               { <<api.subscriber, r.rows[i].job_id>> : i \in 1..Len(r.rows) }
          /\ first_lines' = first_lines \o ids
  /\ api' = NoCall
  /\ UNCHANGED <<clock, max_attempts, aux_vars, once_vars, worker_vars, bot_vars, http_vars,
                 emitted, dispatched, dispatched_run, downloaded, abandoned, faults, restarts>>

\* run_worker: claim_next returned None: time.sleep(...), then `continue`
ClaimNone ==
  /\ wpc = "idle"
  /\ ~claim_next(store, WORKER_ID, clock).found
  /\ wpc' = IF run_once THEN "returned" ELSE wpc
  /\ UNCHANGED <<store_vars, aux_vars, once_vars, api_vars, http_vars, bot_vars, history_vars,
                 wjob, wpayload, wattempt, wcallback_error, wduplicate>>

\* run_worker: claim_next returned a job; started_payload is built from it
Claim ==
  /\ wpc = "idle"
  /\ LET r == claim_next(store, WORKER_ID, clock)
     IN /\ r.found
        /\ store' = r.store
        /\ wjob' = r.job_id
        /\ wpayload' = _build_event_payload(r.store.jobs[r.job_id], "started")
        /\ emitted' = Append(emitted, wpayload')
  /\ wpc' = "started_post"
  /\ wattempt' = 0
  /\ wcallback_error' = None
  /\ wduplicate' = FALSE
  /\ processed' = IF run_once THEN processed + 1 ELSE processed
  /\ UNCHANGED <<clock, max_attempts, aux_vars, run_once, api_vars, http_vars, bot_vars,
                 dispatched, dispatched_run, answered, downloaded, abandoned, faults, restarts>>

PostPcs == {"started_post", "done_post", "failed_post"}
MarkPc(pc) == CASE pc = "started_post" -> "started_mark"
                [] pc = "done_post" -> "done_mark"
                [] pc = "failed_post" -> "failed_mark"

\* one pass of the loop of _send_callback_with_retries: one POST.  The request
\* is lost, or the bot handles it and the response arrives or is lost.
Post ==
  /\ wpc \in PostPcs
  /\ wattempt < RETRIES
  /\ \E outcome \in {"lost", "answered", "answer_lost"} :
       LET resp == handle_callback_request(bot, CallbackSecret, wpayload)
           ok == outcome = "answered" /\ resp.code = 200
       IN /\ bot' = IF outcome = "lost" THEN bot ELSE resp.bot
          /\ wduplicate' = (ok /\ resp.duplicate)
          /\ wattempt' = wattempt + 1
          /\ wpc' = IF ok \/ wattempt' >= RETRIES THEN MarkPc(wpc) ELSE wpc
          /\ wcallback_error' = IF ok THEN None ELSE CallbackError
          /\ accepted_run' = IF outcome # "lost" /\ resp.code = 200 /\ ~resp.duplicate
                              THEN Append(accepted_run, wpayload.event_id)
                              ELSE accepted_run
  /\ UNCHANGED <<store_vars, aux_vars, once_vars, api_vars, wjob, wpayload, http, consumer, history_vars>>


\* the next iteration of `while True`: the locals of the last one are dead
NextIteration ==
  /\ wpc' = "idle"
  /\ wjob' = 0
  /\ wpayload' = NoPayload
  /\ wattempt' = 0
  /\ wcallback_error' = None
  /\ wduplicate' = FALSE

\* `if run_once and processed >= 1: return` at the end of the loop body
EndOfIteration ==
  IF run_once /\ processed >= 1
  THEN /\ wpc' = "returned"
       /\ wjob' = 0
       /\ wpayload' = NoPayload
       /\ wattempt' = 0
       /\ wcallback_error' = None
       /\ wduplicate' = FALSE
  ELSE NextIteration

\* the `finally` of each callback block: store.mark_notification(...) returns
MarkNotification ==
  /\ wpc \in {"started_mark", "done_mark", "failed_mark"}
  /\ store' = mark_notification(store, wjob, wpayload.event_id, wcallback_error, clock)
  /\ IF wpc = "started_mark"
     THEN /\ wpc' = "download"
          /\ wattempt' = 0
          /\ wcallback_error' = None
          /\ wduplicate' = FALSE
          /\ UNCHANGED <<wjob, wpayload>>
     ELSE EndOfIteration
  /\ UNCHANGED <<clock, max_attempts, aux_vars, once_vars, api_vars, http_vars, bot_vars, history_vars>>

\* the payload the worker posts after mark_done: built from the record
\* mark_done returned (`finished`), not from the one claim_next returned
DonePayload_from_claimed(finished, claimed) ==
  _build_event_payload([ claimed EXCEPT !.status = STATUS_DONE,
                                        !.result = finished.result ], "done")

DonePayload(finished, claimed) == _build_event_payload(finished, "done")

\* download_url returned: mark_done, then the "done" payload
DownloadReturns ==
  /\ wpc = "download"
  /\ \E result \in Results :
       LET m == mark_done(store, wjob, result, clock)
       IN /\ store' = m.store
          /\ IF m.found
             THEN /\ wpayload' = DonePayload(m.store.jobs[wjob],
                                   [ store.jobs[wjob] EXCEPT
                                       !.subscribers = wpayload.subscribers ])
                  /\ emitted' = Append(emitted, wpayload')
                  /\ wpc' = "done_post"
                  /\ wattempt' = 0
                  /\ wcallback_error' = None
                  /\ wduplicate' = FALSE
                  /\ UNCHANGED wjob
             ELSE /\ NextIteration      \* `continue`: not by the run_once check
                  /\ UNCHANGED emitted
  /\ downloaded' = downloaded \cup {wjob}
  /\ UNCHANGED <<clock, max_attempts, aux_vars, once_vars, api_vars, http_vars, bot_vars,
                 dispatched, dispatched_run, answered, abandoned, faults, restarts>>

\* the `except Exception` block of run_worker: mark_failed_or_retry, then the
\* "failed" payload when the job failed for good
failed_event_on_requeue(next_status, found) == found

\* `elif next_status == STATUS_FAILED and failed_job`
failed_event(next_status, found) == next_status = STATUS_FAILED /\ found

HandleFailure ==
  LET m == mark_failed_or_retry(store, wjob, Traceback, clock)
  IN /\ store' = m.store
     /\ IF failed_event(m.next_status, m.found)
        THEN /\ wpayload' = _build_event_payload(m.store.jobs[wjob], "failed")
             /\ emitted' = Append(emitted, wpayload')
             /\ wpc' = "failed_post"
             /\ wattempt' = 0
             /\ wcallback_error' = None
             /\ wduplicate' = FALSE
             /\ UNCHANGED wjob
        ELSE /\ EndOfIteration
             /\ UNCHANGED emitted

\* download_url (or Platform(...)) raised
DownloadRaises ==
  /\ wpc = "download"
  /\ HandleFailure
  /\ UNCHANGED <<clock, max_attempts, aux_vars, once_vars, api_vars, http_vars, bot_vars,
                 dispatched, dispatched_run, answered, downloaded, abandoned, faults, restarts>>

\* the worker process exits and is started again: run_worker from the top
WorkerExits ==
  /\ abandoned' = abandoned \cup {wjob}
  /\ processed' = 0
  /\ NextIteration

\* store.mark_notification raises (an I/O error before its append).  In the
\* `finally` of the "done" block the exception is inside the `try` of the
\* download, so the `except Exception` block runs; in the other two blocks it
\* leaves run_worker.
MarkNotificationRaises ==
  /\ wpc \in {"started_mark", "done_mark", "failed_mark"}
  /\ faults < MaxFaults
  /\ faults' = faults + 1
  /\ IF wpc = "done_mark"
     THEN /\ HandleFailure
          /\ UNCHANGED <<abandoned, processed>>
     ELSE /\ WorkerExits
          /\ UNCHANGED <<store, emitted>>
  /\ UNCHANGED <<clock, max_attempts, aux_vars, run_once, api_vars, http_vars, bot_vars,
                 dispatched, dispatched_run, answered, downloaded, restarts>>

\* _consume_events: popleft, then handle_job_event(event)
ConsumeEvent ==
  /\ bot.event_queue # <<>>
  /\ bot' = [ bot EXCEPT !.event_queue = Tail(@) ]
  /\ dispatched' = Append(dispatched, Head(bot.event_queue).event_id)
  /\ dispatched_run' = Append(dispatched_run, Head(bot.event_queue).event_id)
  /\ UNCHANGED <<store_vars, aux_vars, once_vars, api_vars, worker_vars, http_vars,
                 emitted, answered, downloaded, abandoned, faults, restarts>>

\* the bot process is restarted: TelegramBotRuntime.__init__ runs again
BotRestart ==
  /\ restarts < MaxBotRestarts
  /\ restarts' = restarts + 1
  /\ bot' = InitBot
  /\ http' = InitHttp
  /\ consumer' = InitConsumer
  /\ accepted_run' = <<>>
  /\ dispatched_run' = <<>>
  /\ UNCHANGED <<store_vars, aux_vars, once_vars, api_vars, worker_vars, emitted, dispatched, answered, downloaded,
                 abandoned, faults>>

\* API and worker; the bot answers the POSTs and nobody consumes or restarts
Next ==
  \/ Enqueue
  \/ ClaimNone
  \/ Claim
  \/ Post
  \/ MarkNotification
  \/ DownloadReturns
  \/ DownloadRaises
  \/ MarkNotificationRaises

Spec == Init /\ [][Next]_vars

\* API and worker while every store write succeeds
NextProgress ==
  \/ Enqueue
  \/ ClaimNone
  \/ Claim
  \/ Post
  \/ MarkNotification
  \/ DownloadReturns
  \/ DownloadRaises

\* the worker's steps when download_url may never end
WorkerStep_download_hangs ==
  \/ Claim
  \/ Post
  \/ MarkNotification

\* the step the worker is at, one at a time
WorkerStep ==
  \/ Claim
  \/ Post
  \/ MarkNotification
  \/ DownloadReturns
  \/ DownloadRaises

\* the worker process keeps running: its loop goes on, each POST ends, and
\* download_url returns or raises
SpecProgress ==
  /\ Init
  /\ [][NextProgress]_vars
  /\ WF_vars(WorkerStep)

\* one request to the API, the worker, and the whole bot
FirstEnqueue == clock = 0 /\ Enqueue

NextDelivery ==
  \/ FirstEnqueue
  \/ ClaimNone
  \/ Claim
  \/ Post
  \/ MarkNotification
  \/ DownloadReturns
  \/ DownloadRaises
  \/ MarkNotificationRaises
  \/ ConsumeEvent
  \/ BotRestart

SpecDelivery == Init /\ [][NextDelivery]_vars

\* two POST /jobs requests at a time, one of them held up before the lock,
\* and the worker, whose downloads return
NextApi ==
  \/ Enqueue
  \/ EnqueueReadsNow
  \/ EnqueueLocked
  \/ ClaimNone
  \/ Claim
  \/ Post
  \/ MarkNotification
  \/ DownloadReturns
  \/ MarkNotificationRaises

SpecApi == Init /\ [][NextApi]_vars

\* the same with downloads that raise: retries while requests are held up
NextRetry ==
  \/ Enqueue
  \/ EnqueueReadsNowOf({ <<"u2">> })
  \/ EnqueueLocked
  \/ ClaimNone
  \/ Claim
  \/ Post
  \/ MarkNotification
  \/ DownloadReturns
  \/ DownloadRaises

SpecRetry == Init /\ [][NextRetry]_vars

\* the queue file is removed from outside (the data directory is cleaned):
\* the store reads no jobs until the next append creates the file again
QueueFileRemoved ==
  /\ faults < MaxFaults
  /\ store.queue_lines > 0
  /\ faults' = faults + 1
  /\ store' = [ store EXCEPT !.jobs = <<>>, !.order = <<>>, !.queue_lines = 0 ]
  /\ UNCHANGED <<clock, max_attempts, aux_vars, once_vars, api_vars, worker_vars, bot_vars, http_vars,
                 emitted, dispatched, dispatched_run, answered, downloaded, abandoned,
                 restarts>>

\* ------------------------------------ run_worker, each callback on record
OTHERS_OF_CALLBACKS == <<instance_vars, access_vars, file_vars, url_vars, window_vars,
                         raise_vars, pool_vars>>

\* what send_job_event_callback raises: httpx.ConnectError when the request
\* does not arrive, httpx.ReadTimeout when the response does not, and
\* httpx.HTTPStatusError from raise_for_status
str_exc(outcome) ==
  CASE outcome = "lost" -> "ConnectError"
    [] outcome = "answer_lost" -> "ReadTimeout"
    [] OTHER -> "HTTPStatusError"

last_error_first(previous, exc) == IF previous # None THEN previous ELSE exc

\* `last_error = exc`
last_error(previous, exc) == exc

CallbackOf(event_id) ==
  IF event_id \in DOMAIN callbacks THEN callbacks[event_id] ELSE NotPosted

Recorded(event_id, record) ==
  [ e \in DOMAIN callbacks \cup {event_id} |->
      IF e = event_id THEN record ELSE callbacks[e] ]

\* one pass of the loop of _send_callback_with_retries, as Post, with the
\* exception of each send_job_event_callback told from the others
SendJobEventCallback ==
  /\ wpc \in PostPcs
  /\ wattempt < RETRIES
  /\ \E outcome \in {"lost", "answered", "answer_lost"} :
       LET resp == handle_callback_request(bot, CallbackSecret, wpayload)
           ok == outcome = "answered" /\ resp.code = 200
           was == CallbackOf(wpayload.event_id)
       IN /\ bot' = IF outcome = "lost" THEN bot ELSE resp.bot
          /\ wduplicate' = (ok /\ resp.duplicate)
          /\ wattempt' = wattempt + 1
          /\ wpc' = IF ok \/ wattempt' >= RETRIES THEN MarkPc(wpc) ELSE wpc
          /\ wcallback_error' = IF ok THEN None
                                ELSE last_error(wcallback_error, str_exc(outcome))
          /\ accepted_run' = IF outcome # "lost" /\ resp.code = 200 /\ ~resp.duplicate
                              THEN Append(accepted_run, wpayload.event_id)
                              ELSE accepted_run
          /\ callbacks' = Recorded(wpayload.event_id,
               [ was EXCEPT !.posts = @ + 1,
                            !.successes = IF ok THEN @ + 1 ELSE @,
                            !.last_error = IF ok THEN None ELSE str_exc(outcome) ])
  /\ UNCHANGED <<store_vars, OTHERS_OF_CALLBACKS, once_vars, api_vars, wjob, wpayload, http,
                 consumer, history_vars>>

CallRecorded ==
  callbacks' = Recorded(wpayload.event_id,
    [ CallbackOf(wpayload.event_id) EXCEPT !.marks = @ + 1,
                                           !.callback_error = wcallback_error ])

\* the `finally` of each callback block, as MarkNotification
MarkNotificationCall ==
  /\ wpc \in {"started_mark", "done_mark", "failed_mark"}
  /\ store' = mark_notification(store, wjob, wpayload.event_id, wcallback_error, clock)
  /\ CallRecorded
  /\ IF wpc = "started_mark"
     THEN /\ wpc' = "download"
          /\ wattempt' = 0
          /\ wcallback_error' = None
          /\ wduplicate' = FALSE
          /\ UNCHANGED <<wjob, wpayload>>
     ELSE EndOfIteration
  /\ UNCHANGED <<clock, max_attempts, OTHERS_OF_CALLBACKS, once_vars, api_vars, http_vars,
                 bot_vars, history_vars>>

\* store.mark_notification raises, as MarkNotificationRaises
MarkNotificationCallRaises ==
  /\ wpc \in {"started_mark", "done_mark", "failed_mark"}
  /\ faults < MaxFaults
  /\ faults' = faults + 1
  /\ CallRecorded
  /\ IF wpc = "done_mark"
     THEN /\ HandleFailure
          /\ UNCHANGED <<abandoned, processed>>
     ELSE /\ WorkerExits
          /\ UNCHANGED <<store, emitted>>
  /\ UNCHANGED <<clock, max_attempts, OTHERS_OF_CALLBACKS, run_once, api_vars, http_vars,
                 bot_vars, dispatched, dispatched_run, answered, downloaded, restarts>>

\* the first request to the API, for one URL
EnqueueOneUrl == FirstEnqueue /\ Len(first_lines') = 1

\* one job and the worker
NextCallbacks ==
  \/ EnqueueOneUrl
  \/ ClaimNone
  \/ Claim
  \/ SendJobEventCallback
  \/ MarkNotificationCall
  \/ MarkNotificationCallRaises
  \/ DownloadReturns
  \/ DownloadRaises

SpecCallbacks == Init /\ [][NextCallbacks]_vars

\* ------------------------------------------- several workers on one store
OTHERS_OF_POOL == <<worker_vars, bot_vars, http_vars, api_vars, once_vars, instance_vars,
                    access_vars, file_vars, url_vars, callback_vars, window_vars, raise_vars>>

\* build_worker_id(): f"{hostname}:{pid}"
WorkerId(w) == IF w = 1 THEN "host:1" ELSE "host:2"

\* the callback_error of the mark_notification calls: the POSTs, which do
\* not touch the store, are taken to go through
CallbackErrors == {None}

\* run_worker of process w: claim_next returned a job
WorkerClaims(w) ==
  /\ workers[w].pc = "idle"
  /\ LET r == claim_next(store, WorkerId(w), clock)
     IN /\ r.found
        /\ store' = r.store
        /\ workers' = [ workers EXCEPT ![w] =
             [ pc |-> "started", job_id |-> r.job_id,
               attempts |-> r.store.jobs[r.job_id].attempts ] ]
        /\ claim_log' = claim_log \cup
             { <<w, r.job_id, r.store.jobs[r.job_id].attempts>> }
  /\ UNCHANGED <<clock, max_attempts, history_vars, OTHERS_OF_POOL>>

\* the started callback has ended: mark_notification, then the download
WorkerStarted(w) ==
  /\ workers[w].pc = "started"
  /\ \E callback_error \in CallbackErrors :
       store' = mark_notification(store, workers[w].job_id,
                  EventId(workers[w].job_id, "started", workers[w].attempts),
                  callback_error, clock)
  /\ workers' = [ workers EXCEPT ![w].pc = "download" ]
  /\ UNCHANGED <<clock, max_attempts, claim_log, history_vars, OTHERS_OF_POOL>>

\* download_url returned: mark_done
WorkerDownloadReturns(w) ==
  /\ workers[w].pc = "download"
  /\ \E result \in Results :
       LET m == mark_done(store, workers[w].job_id, result, clock)
       IN /\ store' = m.store
          /\ workers' = [ workers EXCEPT ![w] =
               IF m.found THEN [ @ EXCEPT !.pc = "done" ] ELSE IdleWorker ]
  /\ UNCHANGED <<clock, max_attempts, claim_log, history_vars, OTHERS_OF_POOL>>

\* the `except Exception` block: mark_failed_or_retry
WorkerHandlesFailure(w) ==
  LET m == mark_failed_or_retry(store, workers[w].job_id, Traceback, clock)
  IN /\ store' = m.store
     /\ workers' = [ workers EXCEPT ![w] =
          IF failed_event(m.next_status, m.found)
          THEN [ @ EXCEPT !.pc = "failed" ] ELSE IdleWorker ]

\* download_url raised
WorkerDownloadRaises(w) ==
  /\ workers[w].pc = "download"
  /\ WorkerHandlesFailure(w)
  /\ UNCHANGED <<clock, max_attempts, claim_log, history_vars, OTHERS_OF_POOL>>

\* the done or failed callback has ended: mark_notification, end of the pass
WorkerNotified(w) ==
  /\ workers[w].pc \in {"done", "failed"}
  /\ \E callback_error \in CallbackErrors :
       store' = mark_notification(store, workers[w].job_id,
                  EventId(workers[w].job_id, workers[w].pc, workers[w].attempts),
                  callback_error, clock)
  /\ workers' = [ workers EXCEPT ![w] = IdleWorker ]
  /\ UNCHANGED <<clock, max_attempts, claim_log, history_vars, OTHERS_OF_POOL>>

\* mark_notification raises in the `finally` of the done block: the
\* `except Exception` block runs
WorkerNotificationRaises(w) ==
  /\ workers[w].pc = "done"
  /\ faults < MaxFaults
  /\ faults' = faults + 1
  /\ WorkerHandlesFailure(w)
  /\ UNCHANGED <<clock, max_attempts, claim_log, emitted, dispatched, dispatched_run, answered,
                 downloaded, abandoned, restarts, OTHERS_OF_POOL>>

\* the process of worker w ends (killed, or mark_notification raised outside
\* the `try` of the download) and is started again
WorkerProcessEnds(w) ==
  /\ workers[w].pc # "idle"
  /\ workers' = [ workers EXCEPT ![w] = IdleWorker ]
  /\ UNCHANGED <<store_vars, claim_log, history_vars, OTHERS_OF_POOL>>

NextPool ==
  \/ Enqueue
  \/ \E w \in Workers :
       \/ WorkerClaims(w)
       \/ WorkerStarted(w)
       \/ WorkerDownloadReturns(w)
       \/ WorkerDownloadRaises(w)
       \/ WorkerNotified(w)
       \/ WorkerNotificationRaises(w)
       \/ WorkerProcessEnds(w)

SpecPool == Init /\ [][NextPool]_vars

\* ------------------------------------------------ telegram_bot.main
OTHERS_OF_INSTANCES == <<store_vars, worker_vars, bot_vars, history_vars, http_vars, api_vars,
                         once_vars, access_vars, file_vars, url_vars, callback_vars,
                    window_vars, raise_vars, pool_vars>>

\* a telegram-bot process is started: main up to acquire_single_instance_lock
BotStarts(b) ==
  /\ instances[b].pc \in {"stopped", "refused"}
  /\ instances' = [ instances EXCEPT ![b].pc = "starting" ]
  /\ UNCHANGED <<instance_lock, OTHERS_OF_INSTANCES>>

flock_nb_always(holder) == TRUE

\* fcntl.flock(fd, LOCK_EX | LOCK_NB) on a file another process has locked
\* raises BlockingIOError at once
flock_nb(holder) == holder = 0

\* RuntimeError(f"Another telegram-bot instance is already running (lock: {lock_file}).")
AlreadyRunning == <<"Another telegram-bot instance is already running", LOCK_FILE>>

\* acquire_single_instance_lock: the lock is taken, or main ends with the
\* RuntimeError
AcquireSingleInstanceLock(b) ==
  /\ instances[b].pc = "starting"
  /\ IF flock_nb(instance_lock)
     THEN /\ instance_lock' = b
          /\ instances' = [ instances EXCEPT ![b].pc = "locked" ]
     ELSE /\ instances' = [ instances EXCEPT ![b] = [ pc |-> "refused",
                                                       error |-> AlreadyRunning ] ]
          /\ UNCHANGED instance_lock
  /\ UNCHANGED OTHERS_OF_INSTANCES

\* app.run_polling: post_init starts the callback server, then polling
PostInit(b) ==
  /\ instances[b].pc = "locked"
  /\ instances' = [ instances EXCEPT ![b].pc = "serving" ]
  /\ UNCHANGED <<instance_lock, OTHERS_OF_INSTANCES>>

\* run_polling ends: post_shutdown stops the callback server
PostShutdown(b) ==
  /\ instances[b].pc = "serving"
  /\ instances' = [ instances EXCEPT ![b].pc = "stopping" ]
  /\ UNCHANGED <<instance_lock, OTHERS_OF_INSTANCES>>

\* the `finally` of main: flock(LOCK_UN) and close; the process ends
Unlock(b) ==
  /\ instances[b].pc = "stopping"
  /\ instances' = [ instances EXCEPT ![b].pc = "stopped" ]
  /\ instance_lock' = IF instance_lock = b THEN 0 ELSE instance_lock
  /\ UNCHANGED OTHERS_OF_INSTANCES

\* the process is killed while it runs: the kernel closes its descriptors,
\* which drops its flock
Killed(b) ==
  /\ instances[b].pc \in {"starting", "locked", "serving", "stopping"}
  /\ instances' = [ instances EXCEPT ![b].pc = "stopped" ]
  /\ instance_lock' = IF instance_lock = b THEN 0 ELSE instance_lock
  /\ UNCHANGED OTHERS_OF_INSTANCES

NextInstances ==
  \E b \in Bots :
    \/ BotStarts(b)
    \/ AcquireSingleInstanceLock(b)
    \/ PostInit(b)
    \/ PostShutdown(b)
    \/ Unlock(b)
    \/ Killed(b)

SpecInstances == Init /\ [][NextInstances]_vars

\* ------------------------------------------------ telegram_access_store
RECURSIVE sorted(_)
\* sorted(ids)
sorted(ids) ==
  IF ids = {} THEN <<>>
  ELSE LET least == CHOOSE i \in ids : \A j \in ids : i <= j
       IN <<least>> \o sorted(ids \ {least})

\* the ids of "authorized_chat_ids"; a missing file reads as no ids
_read_authorized_locked(file) == { file[i] : i \in 1..Len(file) }

\* {"authorized_chat_ids": sorted(chat_ids)}, put in place with replace()
_write_authorized_locked(chat_ids) == sorted(chat_ids)

\* one id per line; a missing file reads as no ids
_read_whitelist_locked(file) == { file[i] : i \in 1..Len(file) }

\* the ids sorted, one per line, put in place with replace()
_write_whitelist_locked(user_ids) == sorted(user_ids)

is_chat_authorized_always(file, chat_id) == TRUE

is_chat_authorized(file, chat_id) == chat_id \in _read_authorized_locked(file)

is_user_whitelisted(file, user_id) == user_id \in _read_whitelist_locked(file)

\* what the body of a store operation does with the set it has read: the
\* file it leaves and the value it returns
authorize_chat_locked(file, current, chat_id) ==
  IF chat_id \in current
  THEN [ file |-> file, ret |-> FALSE ]
  ELSE [ file |-> _write_authorized_locked(current \cup {chat_id}), ret |-> TRUE ]

add_user_to_whitelist_locked(file, current, user_id) ==
  IF user_id \in current
  THEN [ file |-> file, ret |-> FALSE ]
  ELSE [ file |-> _write_whitelist_locked(current \cup {user_id}), ret |-> TRUE ]

add_users_to_whitelist_locked(file, current, user_ids) ==
  LET added == Cardinality(current \cup user_ids) - Cardinality(current)
  IN [ file |-> IF added > 0 THEN _write_whitelist_locked(current \cup user_ids) ELSE file,
       ret |-> added ]

\* the operations as one call on the files as they are
authorize_chat(file, chat_id) ==
  authorize_chat_locked(file, _read_authorized_locked(file), chat_id)

add_user_to_whitelist(file, user_id) ==
  add_user_to_whitelist_locked(file, _read_whitelist_locked(file), user_id)

add_users_to_whitelist(file, user_ids) ==
  add_users_to_whitelist_locked(file, _read_whitelist_locked(file), user_ids)

snapshot_counts(authorized, whitelist) ==
  [ authorized_chats |-> Cardinality(_read_authorized_locked(authorized)),
    whitelisted_users |-> Cardinality(_read_whitelist_locked(whitelist)) ]

OTHERS_OF_ACCESS == <<store_vars, worker_vars, bot_vars, history_vars, http_vars, api_vars,
                      once_vars, instance_vars, file_vars, url_vars, callback_vars,
                    window_vars, raise_vars, pool_vars>>

AccessOps == {"authorize_chat", "add_user_to_whitelist", "add_users_to_whitelist"}

\* the arguments a process calls an operation with
AccessArgs(op) ==
  CASE op = "authorize_chat" -> { {c} : c \in GroupChatIds }
    [] op = "add_user_to_whitelist" -> { {u} : u \in UserIds }
    [] op = "add_users_to_whitelist" -> SUBSET UserIds

\* the file an operation works on
FileOf(op) == IF op = "authorize_chat" THEN authorized_chats_file ELSE whitelist_file

\* a process calls an operation of the store and comes to its file_lock
AccessCall(p) ==
  /\ access_calls[p].pc = "idle"
  /\ \E op \in AccessOps : \E arg \in AccessArgs(op) :
       access_calls' = [ access_calls EXCEPT ![p] = [ pc |-> "waiting", op |-> op, arg |-> arg ] ]
  /\ UNCHANGED <<authorized_chats_file, whitelist_file, access_lock, last_update, OTHERS_OF_ACCESS>>

flock_shared(holder) == TRUE

\* fcntl.flock(fd, LOCK_EX) returns when no other open file holds the lock
flock(holder) == holder = 0

\* file_lock entered; `before` keeps what the file held at that moment
AccessLock(p) ==
  /\ access_calls[p].pc = "waiting"
  /\ flock(access_lock)
  /\ access_lock' = p
  /\ access_calls' = [ access_calls EXCEPT ![p] =
         [ pc |-> "locked", op |-> @.op, arg |-> @.arg,
           before |-> SeqToSet(FileOf(@.op)) ] ]
  /\ UNCHANGED <<authorized_chats_file, whitelist_file, last_update, OTHERS_OF_ACCESS>>

\* current = self._read_..._locked()
AccessRead(p) ==
  /\ access_calls[p].pc = "locked"
  /\ LET c == access_calls[p]
         current == IF c.op = "authorize_chat"
                    THEN _read_authorized_locked(authorized_chats_file)
                    ELSE _read_whitelist_locked(whitelist_file)
     IN access_calls' = [ access_calls EXCEPT ![p] =
          [ pc |-> "read", op |-> c.op, arg |-> c.arg, before |-> c.before,
            current |-> current ] ]
  /\ UNCHANGED <<authorized_chats_file, whitelist_file, access_lock, last_update, OTHERS_OF_ACCESS>>

\* the rest of the body: the write, if any, and the value to return
AccessWrite(p) ==
  /\ access_calls[p].pc = "read"
  /\ LET c == access_calls[p]
         one == CHOOSE id \in c.arg : TRUE
         out == CASE c.op = "authorize_chat" ->
                       authorize_chat_locked(authorized_chats_file, c.current, one)
                  [] c.op = "add_user_to_whitelist" ->
                       add_user_to_whitelist_locked(whitelist_file, c.current, one)
                  [] c.op = "add_users_to_whitelist" ->
                       add_users_to_whitelist_locked(whitelist_file, c.current, c.arg)
     IN /\ access_calls' = [ access_calls EXCEPT ![p] =
             [ pc |-> "done", op |-> c.op, arg |-> c.arg, before |-> c.before,
               ret |-> out.ret ] ]
        /\ IF c.op = "authorize_chat"
           THEN authorized_chats_file' = out.file /\ UNCHANGED whitelist_file
           ELSE whitelist_file' = out.file /\ UNCHANGED authorized_chats_file
  /\ UNCHANGED <<access_lock, last_update, OTHERS_OF_ACCESS>>

\* the `finally` of file_lock: flock(LOCK_UN); the call returns
AccessReturn(p) ==
  /\ access_calls[p].pc = "done"
  /\ access_lock' = IF access_lock = p THEN 0 ELSE access_lock
  /\ access_calls' = [ access_calls EXCEPT ![p] = [ pc |-> "idle" ] ]
  /\ UNCHANGED <<authorized_chats_file, whitelist_file, last_update, OTHERS_OF_ACCESS>>

NextAccessStore ==
  \E p \in AccessProcs :
    \/ AccessCall(p)
    \/ AccessLock(p)
    \/ AccessRead(p)
    \/ AccessWrite(p)
    \/ AccessReturn(p)

SpecAccessStore == Init /\ [][NextAccessStore]_vars

\* ------------------------------------------------ telegram_bot handlers
GROUP_CHAT_TYPES == {"group", "supergroup"}
ADMIN_STATUSES == {"administrator", "creator"}
MAX_LINKS_PER_MESSAGE == 5

\* TELEGRAM_AUTH_PASSWORD
auth_password == "secret"

\* the chats an update comes from; a private chat has the id of its user
Chats ==
  [ type : {"private"}, id : UserIds ]
    \cup { [ type |-> "group", id |-> -100 ], [ type |-> "supergroup", id |-> -200 ],
           [ type |-> "channel", id |-> ChannelChatId ] }

\* context.args of /auth
AuthArgs == { <<>>, <<"secret">>, <<"guess">>, <<"secret", "secret">> }

\* what get_chat_member answers: a status of Telegram, or it raises
MemberAnswers == {"raise", "creator", "administrator", "member", "left"}

\* what get_chat_administrators answers: the admins, or it raises
AdminAnswers ==
  { [ raises |-> TRUE, admins |-> {} ],
    [ raises |-> FALSE, admins |-> { [ id |-> 7, is_bot |-> FALSE ] } ],
    [ raises |-> FALSE, admins |-> { [ id |-> 7, is_bot |-> FALSE ],
                                     [ id |-> BotUserId, is_bot |-> TRUE ] } ] }

\* the number of distinct normalized URLs found in text and caption
FoundLinks == {0, 1, MAX_LINKS_PER_MESSAGE + 1}

NotEnqueued == [ urls |-> 0, whitelist |-> {} ]

compare_digest_any(given, password) == TRUE

\* hmac.compare_digest
compare_digest(given, password) == given = password

\* str(getattr(member, "status", "")).lower() on the statuses of Telegram
status_lower(status) ==
  CASE status = "Administrator" -> "administrator"
    [] status = "Creator" -> "creator"
    [] OTHER -> status

\* auth_command: the files it leaves and its replies
auth_outcome(chat, user, args, member, persist, admins) ==
  LET unchanged(reply) == [ authorized |-> authorized_chats_file,
                            whitelist |-> whitelist_file,
                            replies |-> << <<reply>> >> ]
  IN IF chat.type \notin GROUP_CHAT_TYPES
       THEN unchanged("/auth works only in group or supergroup chats.")
     ELSE IF Len(args) # 1
       THEN unchanged("Usage: /auth <password>")
     ELSE IF ~compare_digest(args[1], auth_password)
       THEN unchanged("Wrong password.")
     ELSE IF member = "raise"
       THEN unchanged("Failed to verify admin status. Try again later.")
     ELSE IF status_lower(member) \notin ADMIN_STATUSES
       THEN unchanged("Only chat admins can authorize this chat.")
     ELSE IF persist = "raise"
       THEN unchanged("Failed to persist authorization state.")
     ELSE
       LET newly_authorized == authorize_chat(authorized_chats_file, chat.id)
       IN IF admins.raises
          THEN [ authorized |-> newly_authorized.file,
                 whitelist |-> whitelist_file,
                 replies |-> << <<"Chat authorized, but failed to sync admins into whitelist.">> >> ]
          ELSE
            LET admin_user_ids == { a.id : a \in { x \in admins.admins : ~x.is_bot } }
                added_admins == add_users_to_whitelist(whitelist_file, admin_user_ids)
                counts == snapshot_counts(newly_authorized.file, added_admins.file)
            IN [ authorized |-> newly_authorized.file,
                 whitelist |-> added_admins.file,
                 replies |-> << <<IF newly_authorized.ret THEN "Chat authorized."
                                                          ELSE "Chat already authorized.",
                                  added_admins.ret, counts.authorized_chats,
                                  counts.whitelisted_users>> >> ]

AuthCommand ==
  \E chat \in Chats, user \in UserIds, args \in AuthArgs, member \in MemberAnswers,
     persist \in {"ok", "raise"}, admins \in AdminAnswers :
    /\ chat.type = "private" => chat.id = user
    /\ flock(access_lock)
    /\ LET out == auth_outcome(chat, user, args, member, persist, admins)
       IN /\ authorized_chats_file' = out.authorized
          /\ whitelist_file' = out.whitelist
          /\ last_update' = [ handler |-> "auth_command", chat |-> chat, user |-> user,
                              args |-> args, member |-> member, access |-> persist,
                              replies |-> out.replies, enqueued |-> NotEnqueued ]
    /\ UNCHANGED <<access_lock, access_calls, OTHERS_OF_ACCESS>>

\* handle_message: the whitelist it leaves, its replies, and the call of
\* runtime.enqueue_jobs with the whitelist as it is at that moment
message_outcome(chat, user, found, access, enqueue) ==
  LET ignored(replies) == [ whitelist |-> whitelist_file, replies |-> replies,
                            enqueued |-> NotEnqueued ]
      links(whitelist) ==
        IF found = 0 THEN [ whitelist |-> whitelist, replies |-> <<>>, enqueued |-> NotEnqueued ]
        ELSE LET selected == IF found > MAX_LINKS_PER_MESSAGE THEN MAX_LINKS_PER_MESSAGE
                             ELSE found
             IN [ whitelist |-> whitelist,
                  replies |-> (IF found > MAX_LINKS_PER_MESSAGE
                               THEN << <<"Found links. Downloading first only.", found,
                                         MAX_LINKS_PER_MESSAGE>> >>
                               ELSE <<>>)
                              \o (IF enqueue = "raise" THEN << <<"Failed to enqueue links">> >>
                                  ELSE <<>>),
                  enqueued |-> [ urls |-> selected, whitelist |-> SeqToSet(whitelist) ] ]
  IN IF chat.type = "private"
       THEN IF access = "raise" THEN ignored(<< <<"Access check failed. Try later.">> >>)
            ELSE IF ~is_user_whitelisted(whitelist_file, user) THEN ignored(<< <<"Access denied.">> >>)
            ELSE links(whitelist_file)
     ELSE IF chat.type \in GROUP_CHAT_TYPES
       THEN IF access = "raise" THEN ignored(<< <<"Access check failed. Try later.">> >>)
            ELSE IF ~is_chat_authorized(authorized_chats_file, chat.id) THEN ignored(<<>>)
            ELSE links(add_user_to_whitelist(whitelist_file, user).file)
     ELSE ignored(<<>>)

HandleMessage ==
  \E chat \in Chats, user \in UserIds, found \in FoundLinks,
     access \in {"ok", "raise"}, enqueue \in {"ok", "raise"} :
    /\ chat.type = "private" => chat.id = user
    /\ flock(access_lock)
    /\ LET out == message_outcome(chat, user, found, access, enqueue)
       IN /\ whitelist_file' = out.whitelist
          /\ last_update' = [ handler |-> "handle_message", chat |-> chat, user |-> user,
                              args |-> <<>>, member |-> "", access |-> access,
                              replies |-> out.replies, enqueued |-> out.enqueued ]
    /\ UNCHANGED <<authorized_chats_file, access_lock, access_calls, OTHERS_OF_ACCESS>>

NextBotAccess == AuthCommand \/ HandleMessage

SpecBotAccess == Init /\ [][NextBotAccess]_vars

\* ------------------------------------------------ JobStore under file_lock
OTHERS_OF_FILE == <<store_vars, worker_vars, bot_vars, history_vars, http_vars, api_vars,
                    once_vars, instance_vars, access_vars, url_vars, callback_vars,
                    window_vars, raise_vars, pool_vars>>

StoreOps == {"enqueue_many", "claim_next", "mark_done", "mark_failed_or_retry",
             "mark_notification", "get_job"}

_materialize_jobs_first(rows) ==
  [ id \in { rows[i].job_id : i \in 1..Len(rows) } |->
      rows[CHOOSE k \in 1..Len(rows) :
             /\ rows[k].job_id = id
             /\ \A j \in 1..(k - 1) : rows[j].job_id # id] ]

\* jobs[job_id] = row for every row in file order: the last row of each job
_materialize_jobs_locked(rows) ==
  [ id \in { rows[i].job_id : i \in 1..Len(rows) } |->
      rows[CHOOSE k \in 1..Len(rows) :
             /\ rows[k].job_id = id
             /\ \A j \in (k + 1)..Len(rows) : rows[j].job_id # id] ]

\* the row an operation appends to the queue file, computed from the jobs it
\* has materialized; <<>> when it appends none.  updated_at is the stamp of
\* the append, derived_from the stamp of the row the new one is a copy of.
row_to_append(op, job_id, jobs, stamp) ==
  LET derived(current, status, attempts) ==
        << [ job_id |-> current.job_id, status |-> status, attempts |-> attempts,
             created_at |-> current.created_at, updated_at |-> stamp,
             derived_from |-> current.updated_at ] >>
      queued == { id \in DOMAIN jobs : jobs[id].status = STATUS_QUEUED }
  IN CASE op = "enqueue_many" ->
            IF job_id \notin DOMAIN jobs
            THEN << [ job_id |-> job_id, status |-> STATUS_QUEUED, attempts |-> 0,
                      created_at |-> stamp, updated_at |-> stamp, derived_from |-> 0 ] >>
            ELSE IF jobs[job_id].status \in ACTIVE_STATUSES
            THEN derived(jobs[job_id], jobs[job_id].status, jobs[job_id].attempts)
            ELSE <<>>
       [] op = "claim_next" ->
            IF queued = {} THEN <<>>
            ELSE LET first == CHOOSE id \in queued :
                                \A o \in queued \ {id} : ClaimKeyLess(jobs[id], jobs[o])
                 IN derived(jobs[first], STATUS_RUNNING, claim_attempts(jobs[first].attempts))
       [] op = "mark_done" ->
            IF job_id \notin DOMAIN jobs THEN <<>>
            ELSE derived(jobs[job_id], STATUS_DONE, jobs[job_id].attempts)
       [] op = "mark_failed_or_retry" ->
            IF job_id \notin DOMAIN jobs THEN <<>>
            ELSE derived(jobs[job_id],
                         IF jobs[job_id].attempts < MAX_ATTEMPTS THEN STATUS_QUEUED
                         ELSE STATUS_FAILED,
                         jobs[job_id].attempts)
       [] op = "mark_notification" ->
            IF job_id \notin DOMAIN jobs THEN <<>>
            ELSE derived(jobs[job_id], jobs[job_id].status, jobs[job_id].attempts)
       [] op = "get_job" -> <<>>

\* a process calls an operation of the JobStore and comes to its file_lock
StoreCall(p) ==
  /\ store_calls[p].pc = "idle"
  /\ mutations < MaxMutations
  /\ \E op \in StoreOps, job_id \in JobIds :
       store_calls' = [ store_calls EXCEPT ![p] = [ pc |-> "waiting", op |-> op,
                                                    job_id |-> job_id ] ]
  /\ UNCHANGED <<queue_file, store_lock, mutations, OTHERS_OF_FILE>>

\* with file_lock(self.lock_file)
StoreLock(p) ==
  /\ store_calls[p].pc = "waiting"
  /\ flock(store_lock)
  /\ store_lock' = p
  /\ store_calls' = [ store_calls EXCEPT ![p].pc = "locked" ]
  /\ UNCHANGED <<queue_file, mutations, OTHERS_OF_FILE>>

\* jobs_by_id = self._materialize_jobs_locked()
StoreMaterialize(p) ==
  /\ store_calls[p].pc = "locked"
  /\ store_calls' = [ store_calls EXCEPT ![p] =
         [ pc |-> "materialized", op |-> @.op, job_id |-> @.job_id,
           jobs |-> _materialize_jobs_locked(queue_file) ] ]
  /\ UNCHANGED <<queue_file, store_lock, mutations, OTHERS_OF_FILE>>

\* self._append_jsonl(self.queue_file, job), or the early return
StoreAppend(p) ==
  /\ store_calls[p].pc = "materialized"
  /\ LET c == store_calls[p]
         row == row_to_append(c.op, c.job_id, c.jobs, mutations + 1)
     IN /\ queue_file' = queue_file \o row
        /\ mutations' = mutations + Len(row)
        /\ store_calls' = [ store_calls EXCEPT ![p] =
             [ pc |-> IF row = <<>> THEN "returning" ELSE "appended",
               op |-> c.op, job_id |-> c.job_id ] ]
  /\ UNCHANGED <<store_lock, OTHERS_OF_FILE>>

\* self._maybe_compact_locked() on the queue file
StoreCompact(p) ==
  /\ store_calls[p].pc = "appended"
  /\ queue_file' = IF Len(queue_file) > CompactAfterLines
                   THEN _compact_latest_by_job_id(queue_file)
                   ELSE queue_file
  /\ store_calls' = [ store_calls EXCEPT ![p].pc = "returning" ]
  /\ UNCHANGED <<store_lock, mutations, OTHERS_OF_FILE>>

\* the `finally` of file_lock: flock(LOCK_UN); the call returns
StoreUnlock(p) ==
  /\ store_calls[p].pc = "returning"
  /\ store_lock' = IF store_lock = p THEN 0 ELSE store_lock
  /\ store_calls' = [ store_calls EXCEPT ![p] = [ pc |-> "idle" ] ]
  /\ UNCHANGED <<queue_file, mutations, OTHERS_OF_FILE>>

NextFile ==
  \E p \in StoreProcs :
    \/ StoreCall(p)
    \/ StoreLock(p)
    \/ StoreMaterialize(p)
    \/ StoreAppend(p)
    \/ StoreCompact(p)
    \/ StoreUnlock(p)

SpecFile == Init /\ [][NextFile]_vars

\* --------------------------------------- store operations that raise
OTHERS_OF_RAISES == <<store_vars, worker_vars, bot_vars, history_vars, http_vars, api_vars,
                      once_vars, instance_vars, access_vars, url_vars, callback_vars,
                      window_vars, pool_vars>>

\* a process calls an operation while few lines have been appended
StoreCallEarly(p) ==
  /\ mutations < MaxLockAppends
  /\ StoreCall(p)

\* the rows the call of process p has appended so far
ItemsAppended(p) ==
  LET c == store_calls[p]
  IN IF "items" \in DOMAIN c THEN c.items
     ELSE IF c.pc = "appended" THEN 1 ELSE 0

\* enqueue_many: the next pass of `for item in inputs`, for the URL of the
\* next job: the lookup in active_by_url, which holds what the call has
\* appended, and the append
StoreAppendNext(p) ==
  /\ store_calls[p].pc = "appended"
  /\ store_calls[p].op = "enqueue_many"
  /\ store_calls[p].job_id < MaxJobs
  /\ LET c == store_calls[p]
         row == row_to_append(c.op, c.job_id + 1, _materialize_jobs_locked(queue_file),
                              mutations + 1)
     IN /\ queue_file' = queue_file \o row
        /\ mutations' = mutations + Len(row)
        /\ store_calls' = [ store_calls EXCEPT ![p] =
             [ pc |-> "appended", op |-> c.op, job_id |-> c.job_id + 1,
               items |-> ItemsAppended(p) + Len(row) ] ]
  /\ UNCHANGED <<store_lock, raised, OTHERS_OF_RAISES>>

LOCK_UN_skipped(holder, p) == holder

\* the `finally` of file_lock: fcntl.flock(fh.fileno(), fcntl.LOCK_UN)
LOCK_UN(holder, p) == IF holder = p THEN 0 ELSE holder

\* an I/O exception inside `with file_lock(...)` (_read_jsonl, _append_jsonl,
\* _count_lines or the rewrite of _compact_latest_by_job_id, which replaces
\* the file only at its end): it leaves the `with` through the `finally` of
\* file_lock and reaches the caller
StoreRaises(p) ==
  /\ store_calls[p].pc \in {"locked", "materialized", "appended"}
  /\ Len(raised) < MaxRaises
  /\ raised' = Append(raised, [ proc |-> p, op |-> store_calls[p].op,
                                job_id |-> store_calls[p].job_id,
                                pc |-> store_calls[p].pc,
                                items |-> ItemsAppended(p) ])
  /\ store_lock' = LOCK_UN(store_lock, p)
  /\ store_calls' = [ store_calls EXCEPT ![p] = [ pc |-> "idle" ] ]
  /\ UNCHANGED <<queue_file, mutations, OTHERS_OF_RAISES>>

NextLock ==
  \E p \in StoreProcs :
    \/ StoreCallEarly(p)
    \/ StoreLock(p)
    \/ StoreMaterialize(p)
    \/ StoreAppend(p)
    \/ StoreAppendNext(p)
    \/ StoreCompact(p)
    \/ StoreUnlock(p)
    \/ StoreRaises(p)

SpecLock == Init /\ [][NextLock]_vars

\* a process inside `with file_lock(...)` goes on to the end of the `with`,
\* and flock(LOCK_EX) returns for a process that waits while the lock is
\* free again and again
SpecLockFair ==
  /\ SpecLock
  /\ \A p \in StoreProcs :
       /\ WF_vars(StoreMaterialize(p) \/ StoreAppend(p) \/ StoreCompact(p) \/ StoreUnlock(p))
       /\ SF_vars(StoreLock(p))

\* ------------------------------------------------ classify_url, POST /jobs
OTHERS_OF_URLS == <<store_vars, worker_vars, bot_vars, history_vars, http_vars, api_vars,
                    once_vars, instance_vars, access_vars, file_vars, callback_vars,
                    window_vars, raise_vars, pool_vars>>

\* classify_url(url)
ClassifyUrl ==
  /\ classified.url # NoUrl
  /\ ~classified.called
  /\ classified' = [ classified EXCEPT !.called = TRUE, !.item = classify_url(classified.url) ]
  /\ UNCHANGED <<posted, OTHERS_OF_URLS>>

SpecClassify == InitClassify /\ [][ClassifyUrl]_vars

\* the pair of a query that is a tracking parameter
IsTrackingPair(pair) == pair \in TrackingPairs

\* the longest query a URL is written with
MaxQueryPairs == 3

\* the URLs that differ from url in one respect: scheme, case of the host,
\* "www.", port, userinfo, trailing slash of a path that is not the root,
\* fragment, order of two query parameters, one tracking parameter more or less
Variants(url) ==
  LET q == url.query
      without(i) == SubSeq(q, 1, i - 1) \o SubSeq(q, i + 1, Len(q))
      swapped(i) == [ k \in 1..Len(q) |-> IF k = i THEN q[i + 1]
                                           ELSE IF k = i + 1 THEN q[i] ELSE q[k] ]
      with(i, pair) == SubSeq(q, 1, i) \o <<pair>> \o SubSeq(q, i + 1, Len(q))
  IN { [ url EXCEPT !.scheme = x ] : x \in {"https", "http", "HTTP"} }
       \cup { [ url EXCEPT !.host = x ] : x \in { h \in Hosts : lower_all(h) = lower_all(url.host) } }
       \cup { [ url EXCEPT !.www = x ] : x \in Wwws \cup { <<"www.">> } }
       \cup { [ url EXCEPT !.port = x ] : x \in Ports }
       \cup { [ url EXCEPT !.userinfo = x ] : x \in UserInfos \cup { <<"u", "@">> } }
       \cup { [ url EXCEPT !.fragment = x ] : x \in Fragments }
       \cup (IF url.path \in { <<>>, <<"/">> } THEN {}
             ELSE IF url.path[Len(url.path)] = "/"
             THEN { [ url EXCEPT !.path = SubSeq(@, 1, Len(@) - 1) ] }
             ELSE { [ url EXCEPT !.path = Append(@, "/") ] })
       \cup { [ url EXCEPT !.query = swapped(i) ] : i \in 1..(Len(q) - 1) }
       \cup { [ url EXCEPT !.query = without(i) ] : i \in { k \in 1..Len(q) : IsTrackingPair(q[k]) } }
       \cup (IF Len(q) >= MaxQueryPairs THEN {}
             ELSE { [ url EXCEPT !.query = with(i, pair) ] :
                      i \in 0..Len(q), pair \in TrackingPairs })

\* classify_url on the first URL of a message
ClassifyCore ==
  /\ classified.url = NoUrl
  /\ \E url \in Cores :
       classified' = [ url |-> url, called |-> TRUE, item |-> classify_url(url) ]
  /\ UNCHANGED <<posted, OTHERS_OF_URLS>>

\* classify_url on the same URL written in another way
ClassifyVariant ==
  /\ classified.url # NoUrl
  /\ \E url \in Variants(classified.url) :
       classified' = [ url |-> url, called |-> TRUE, item |-> classify_url(url) ]
  /\ UNCHANGED <<posted, OTHERS_OF_URLS>>

NextVariants == ClassifyCore \/ ClassifyVariant

SpecVariants == Init /\ [][NextVariants]_vars

RECURSIVE _parse_supported_urls_all(_)
_parse_supported_urls_all(urls) ==
  IF urls = <<>> THEN <<>>
  ELSE classify_url(Head(urls)) \o _parse_supported_urls_all(Tail(urls))

RECURSIVE parse_from(_, _, _)
\* the loop of _parse_supported_urls from the first of urls on
parse_from(urls, seen, rows) ==
  IF urls = <<>> THEN rows
  ELSE LET item == classify_url(Head(urls))
       IN IF item = <<>> THEN parse_from(Tail(urls), seen, rows)
          ELSE IF item[1].normalized_url \in seen THEN parse_from(Tail(urls), seen, rows)
          ELSE parse_from(Tail(urls), seen \cup {item[1].normalized_url}, rows \o item)

_parse_supported_urls(urls) == parse_from(urls, {}, <<>>)

\* payload.urls of the requests: one to three of the URLs
PostedLists ==
  { <<a>> : a \in PostedUrls }
    \cup { <<a, b>> : a \in PostedUrls, b \in PostedUrls }
    \cup { <<a, b, c>> : a \in PostedUrls, b \in PostedUrls, c \in PostedUrls }

\* payload.subscriber of the requests: they come for one message
PostedSubscribers == { [chat_id |-> 1, message_id |-> 10, thread_id |-> NoThread] }

\* POST /jobs: enqueue_jobs of service_api
PostJobs ==
  /\ \E urls \in PostedLists, subscriber \in PostedSubscribers :
       \E parsed_urls \in { _parse_supported_urls(urls) } :
       \E inputs \in { [ i \in 1..Len(parsed_urls) |-> parsed_urls[i].normalized_url ] } :
          IF parsed_urls = <<>>
          THEN /\ posted' = [ urls |-> urls, status_code |-> 400,
                              detail |-> "No supported URLs found",
                              parsed_urls |-> <<>>, rows |-> <<>> ]
               /\ UNCHANGED <<store_vars, answered, first_lines>>
          ELSE /\ NewJobsNeeded(store, inputs) <= Cardinality(FreeJobIds)
               /\ \E ids \in IdDraws(FreeJobIds, NewJobsNeeded(store, inputs)) :
                    /\ EnqueueCall(inputs, subscriber, ids)
                    /\ posted' = [ urls |-> urls, status_code |-> 200, detail |-> "",
                                   parsed_urls |-> parsed_urls,
                                   rows |-> enqueue_many(store, inputs, subscriber, clock, clock,
                                                         max_attempts, ids).rows ]
               /\ clock' = IF NewJobsNeeded(store, inputs) > 0 THEN clock + 1 ELSE clock
               /\ UNCHANGED max_attempts
  /\ UNCHANGED <<classified, instance_vars, access_vars, file_vars, callback_vars,
                 window_vars, raise_vars, pool_vars, once_vars, api, http_vars,
                 worker_vars, bot_vars, emitted, dispatched, dispatched_run, downloaded,
                 abandoned, faults, restarts>>

SpecPost == Init /\ [][PostJobs]_vars

\* `worker --once`, the API, and the queue file removed at some moment
NextOnce ==
  \/ Enqueue
  \/ ClaimNone
  \/ Claim
  \/ Post
  \/ MarkNotification
  \/ DownloadReturns
  \/ DownloadRaises
  \/ QueueFileRemoved

SpecOnce == InitOnce /\ [][NextOnce]_vars

\* --------------------------------------------------- the callback server
\* The requests clients send to POST /internal/job-events: the header
\* X-Internal-Token (None: absent), whether the body is JSON, and its payload.
ClientPayload(event_id, status) ==
  [ NoPayload EXCEPT !.event_id = event_id, !.status = status ]

Requests ==
  { [ token |-> CallbackSecret, json |-> TRUE, payload |-> ClientPayload(<<1, "done", 1>>, "done") ],
    [ token |-> CallbackSecret, json |-> TRUE, payload |-> ClientPayload(<<2, "failed", 1>>, "Failed") ],
    [ token |-> CallbackSecret, json |-> TRUE, payload |-> ClientPayload(<<3, "done", 1>>, "done") ],
    [ token |-> CallbackSecret, json |-> TRUE, payload |-> ClientPayload(<<1, "started", 1>>, "started") ],
    [ token |-> CallbackSecret, json |-> TRUE, payload |-> ClientPayload(<<1, "done", 1>>, "retry") ],
    [ token |-> CallbackSecret, json |-> TRUE, payload |-> ClientPayload(NoEventId, "done") ],
    [ token |-> "bad-token", json |-> TRUE, payload |-> ClientPayload(<<1, "done", 1>>, "done") ],
    [ token |-> None, json |-> TRUE, payload |-> ClientPayload(<<2, "failed", 1>>, "failed") ],
    [ token |-> "bad-token", json |-> FALSE, payload |-> NoPayload ] }

\* the request threads between the checks and the append
InFlight == { t \in HttpThreads : http[t].pc # "idle" }

\* CallbackHandler.do_POST up to _mark_event_seen: json.loads, then the
\* checks of handle_callback_request
HttpRequest(t) ==
  /\ http[t].pc = "idle"
  /\ Len(accepted_run) + Cardinality(InFlight) < MaxAccepted
  /\ \E request \in Requests :
       LET answer == IF ~request.json THEN InvalidJson
                     ELSE request_checks(request.token, request.payload)
       IN http' = [ http EXCEPT ![t] =
                      [ pc |-> IF answer = Passed THEN "mark" ELSE "idle",
                        request |-> request,
                        response |-> answer ] ]
  /\ UNCHANGED <<store_vars, aux_vars, once_vars, api_vars, worker_vars, bot_vars, history_vars, consumer, accepted_run>>

\* handle_callback_request: _mark_event_seen under _event_id_lock
HttpMarkSeen(t) ==
  /\ http[t].pc = "mark"
  /\ LET m == _mark_event_seen(bot, http[t].request.payload.event_id)
     IN /\ bot' = m.bot
        /\ http' = [ http EXCEPT ![t].pc = IF m.seen THEN "idle" ELSE "append",
                                 ![t].response = IF m.seen THEN Duplicate ELSE Passed ]
  /\ UNCHANGED <<store_vars, aux_vars, once_vars, api_vars, worker_vars, history_vars, consumer, accepted_run>>

\* handle_callback_request: _event_queue.append under _event_queue_lock
HttpAppend(t) ==
  /\ http[t].pc = "append"
  /\ bot' = [ bot EXCEPT !.event_queue = Append(@, http[t].request.payload) ]
  /\ accepted_run' = Append(accepted_run, http[t].request.payload.event_id)
  /\ http' = [ http EXCEPT ![t].pc = "signal" ]
  /\ UNCHANGED <<store_vars, aux_vars, once_vars, api_vars, worker_vars, history_vars, consumer>>

\* handle_callback_request: _event_signal.set through call_soon_threadsafe,
\* then 200 {"ok": true}
HttpRespond(t) ==
  /\ http[t].pc = "signal"
  /\ consumer' = [ consumer EXCEPT !.signal = TRUE ]
  /\ http' = [ http EXCEPT ![t].pc = "idle", ![t].response = Ok ]
  /\ UNCHANGED <<store_vars, aux_vars, once_vars, api_vars, worker_vars, bot_vars, history_vars, accepted_run>>

HttpStep == \E t \in HttpThreads : HttpMarkSeen(t) \/ HttpAppend(t) \/ HttpRespond(t)

ClientPosts == \E t \in HttpThreads : HttpRequest(t)

\* _consume_events: `await self._event_signal.wait()` returns, then clear()
ConsumerWakes ==
  /\ consumer.pc = "wait"
  /\ consumer.signal
  /\ consumer' = [ consumer EXCEPT !.pc = "drain", !.signal = FALSE ]
  /\ UNCHANGED <<store_vars, aux_vars, once_vars, api_vars, worker_vars, bot_vars, history_vars, http, accepted_run>>

\* _consume_events: the queue is empty: break, back to the wait
ConsumerQueueEmpty ==
  /\ consumer.pc = "drain"
  /\ bot.event_queue = <<>>
  /\ consumer' = [ consumer EXCEPT !.pc = "wait" ]
  /\ UNCHANGED <<store_vars, aux_vars, once_vars, api_vars, worker_vars, bot_vars, history_vars, http, accepted_run>>

dispatch_without_await == "drain"

\* `await self.handle_job_event(event)`: the task is inside the handler
dispatch_pc == "handling"

\* _consume_events: popleft, then handle_job_event(event) is entered
ConsumerDispatch ==
  /\ consumer.pc = "drain"
  /\ bot.event_queue # <<>>
  /\ bot' = [ bot EXCEPT !.event_queue = Tail(@) ]
  /\ consumer' = [ consumer EXCEPT
                     !.pc = dispatch_pc,
                     !.handling = @ \cup {Head(bot.event_queue).event_id} ]
  /\ dispatched' = Append(dispatched, Head(bot.event_queue).event_id)
  /\ dispatched_run' = Append(dispatched_run, Head(bot.event_queue).event_id)
  /\ UNCHANGED <<store_vars, aux_vars, once_vars, api_vars, worker_vars, http, accepted_run,
                 emitted, answered, downloaded, abandoned, faults, restarts>>

return_to_wait == "wait"

\* the inner `while True` of _consume_events goes on with the next popleft
return_pc == "drain"

\* handle_job_event returns
HandleReturns ==
  /\ \E event_id \in consumer.handling :
       consumer' = [ consumer EXCEPT
                       !.pc = IF @ = "handling" THEN return_pc ELSE @,
                       !.handling = @ \ {event_id} ]
  /\ UNCHANGED <<store_vars, aux_vars, once_vars, api_vars, worker_vars, bot_vars, history_vars, http, accepted_run>>

raise_ends_consumer == "dead"

\* `except Exception as exc: self.logger.exception(...)`: the loop goes on
raise_pc == "drain"

\* handle_job_event raises
HandleRaises ==
  /\ \E event_id \in consumer.handling :
       consumer' = [ consumer EXCEPT
                       !.pc = IF @ = "handling" THEN raise_pc ELSE @,
                       !.handling = @ \ {event_id},
                       !.raised = @ \cup {event_id} ]
  /\ UNCHANGED <<store_vars, aux_vars, once_vars, api_vars, worker_vars, bot_vars, history_vars, http, accepted_run>>

\* the bot process alone: clients post, request threads and the consumer run
NextBot ==
  \/ ClientPosts
  \/ HttpStep
  \/ ConsumerWakes
  \/ ConsumerQueueEmpty
  \/ ConsumerDispatch
  \/ HandleReturns
  \/ HandleRaises

SpecBot == Init /\ [][NextBot]_vars

\* every request thread and the consumer task keep running, and
\* handle_job_event ends
SpecBotFair ==
  /\ SpecBot
  /\ \A t \in HttpThreads : WF_vars(HttpMarkSeen(t) \/ HttpAppend(t) \/ HttpRespond(t))
  /\ WF_vars(ConsumerWakes)
  /\ WF_vars(ConsumerQueueEmpty)
  /\ WF_vars(ConsumerDispatch)
  /\ WF_vars(HandleReturns \/ HandleRaises)

\* ------------------------------------ the callback server, one request at a time
OTHERS_OF_WINDOW == <<instance_vars, access_vars, file_vars, url_vars, callback_vars,
                      raise_vars, pool_vars>>

\* CallbackHandler.do_POST: json.loads, then handle_callback_request
CallbackRequest ==
  /\ \E request \in Requests :
       LET r == IF ~request.json
                THEN [ bot |-> bot, code |-> InvalidJson.code, duplicate |-> FALSE ]
                ELSE handle_callback_request(bot, request.token, request.payload)
           accepted == r.code = 200 /\ ~r.duplicate
       IN /\ accepted => Len(seen_log) < MaxSeen
          /\ bot' = r.bot
          /\ last_callback' = [ request |-> request, code |-> r.code, duplicate |-> r.duplicate ]
          /\ seen_log' = IF accepted THEN Append(seen_log, request.payload.event_id)
                         ELSE seen_log
          /\ rejected' = IF r.code # 200 THEN rejected \cup {request.payload.event_id}
                         ELSE rejected
  /\ UNCHANGED <<store_vars, OTHERS_OF_WINDOW, once_vars, api_vars, worker_vars, history_vars,
                 http_vars>>

\* the bot process serving requests one after the other, and its consumer
NextWindow ==
  \/ CallbackRequest
  \/ ConsumeEvent

SpecWindow == Init /\ [][NextWindow]_vars

\* ------------------------------------------------------------------ claims
Triple(r) == <<r.chat_id, r.message_id, r.thread_id>>
Triples(subscribers) == { Triple(subscribers[i]) : i \in 1..Len(subscribers) }
ActiveWithUrl(url) ==
  { j \in DOMAIN store.jobs : /\ store.jobs[j].normalized_url = url
                              /\ store.jobs[j].status \in ACTIVE_STATUSES }
IsTerminalEvent(e) == e.status \in {"done", "failed"}
\* <<status, attempts>> of the events emitted for job j, in order
EventsOf(j) ==
  LET mine == SelectSeq(emitted, LAMBDA e : e.job_id = j)
  IN [ i \in 1..Len(mine) |-> <<mine[i].event_id[2], mine[i].event_id[3]>> ]
TerminalPcs == {"done_post", "done_mark", "failed_post", "failed_mark"}

\* C1: at most one job with status queued or running per normalized_url, and
\* exactly one for a URL whose enqueue_many call was answered with a job that
\* is not terminal yet.
ActiveUrlUnique ==
  /\ \A url \in Urls : Cardinality(ActiveWithUrl(url)) <= 1
  /\ \A p \in answered :
       store.jobs[p[2]].status \in ACTIVE_STATUSES
         => ActiveWithUrl(store.jobs[p[2]].normalized_url) = {p[2]}

\* C2 as stated: no event_id is passed to the bot's consumer twice, bot
\* restarts included.
DispatchedOnce ==
  \A i, k \in 1..Len(dispatched) : dispatched[i] = dispatched[k] => i = k

\* C2 as amended: no event_id is passed to the consumer twice by one bot process,
\* however often the worker delivers it.
DispatchedOncePerRun ==
  \A i, k \in 1..Len(dispatched_run) : dispatched_run[i] = dispatched_run[k] => i = k

\* the bot has answered "duplicate" to a POST of an event it has dispatched
DuplicateDeliveryAnswered ==
  /\ wduplicate
  /\ wpayload.event_id \in SeqToSet(dispatched_run)

\* C3: the record of job J keeps every subscriber answered with J, and the
\* terminal payload the worker emits for J holds every subscriber answered
\* with J.
SubscribersCovered ==
  /\ \A p \in answered : Triple(p[1]) \in Triples(store.jobs[p[2]].subscribers)
  /\ wpc \in TerminalPcs =>
       /\ emitted[Len(emitted)] = wpayload
       /\ IsTerminalEvent(wpayload)
       /\ wpayload.job_id = wjob
       /\ \A p \in answered : p[2] = wjob => Triple(p[1]) \in Triples(wpayload.subscribers)

\* a "done" payload with a subscriber who came while the job was running
SubscriberJoinedWhileRunning ==
  /\ wpc = "done_post"
  /\ Len(wpayload.subscribers) = 2
  /\ \E i \in 1..Len(emitted) :
       /\ emitted[i].job_id = wjob
       /\ emitted[i].event_id = EventId(wjob, "started", wpayload.event_id[3])
       /\ Len(emitted[i].subscribers) = 1

\* C4: attempts <= max_attempts for every job, and a failed job has
\* attempts >= max_attempts.
RetryBound ==
  \A j \in DOMAIN store.jobs :
    /\ store.jobs[j].attempts <= store.jobs[j].max_attempts
    /\ store.jobs[j].status = STATUS_FAILED
         => store.jobs[j].attempts >= store.jobs[j].max_attempts

FailedAtMaxAttempts ==
  \E j \in DOMAIN store.jobs :
    /\ store.jobs[j].status = STATUS_FAILED
    /\ store.jobs[j].attempts = MAX_ATTEMPTS
    /\ store.jobs[j].max_attempts = MAX_ATTEMPTS

\* C5: a job whose download never returned has, once failed, attempts = N and
\* the events started:1 .. started:N, failed:N and no other; while it waits
\* re-queued after k failures it has the events started:1 .. started:k only.
StartedEvents(n) == [ i \in 1..n |-> <<"started", i>> ]

RetryBoundOnEvents ==
  \A j \in DOMAIN store.jobs \ downloaded :
    LET job == store.jobs[j]
    IN /\ job.status = STATUS_QUEUED => EventsOf(j) = StartedEvents(job.attempts)
       /\ job.status = STATUS_FAILED =>
            /\ job.attempts = job.max_attempts
            /\ EventsOf(j) = Append(StartedEvents(job.max_attempts),
                                    <<"failed", job.max_attempts>>)

FailedAfterRetries ==
  \E j \in DOMAIN store.jobs \ downloaded :
    /\ store.jobs[j].status = STATUS_FAILED
    /\ store.jobs[j].max_attempts = MAX_ATTEMPTS
    /\ Len(EventsOf(j)) = MAX_ATTEMPTS + 1
    /\ wpc = "idle"

\* C6: a job whose status is done or failed keeps that status in every step
\* of the API and the worker.
TerminalIsFinal ==
  [][ \A j \in DOMAIN store.jobs :
        store.jobs[j].status \in TERMINAL_STATUSES
          => store'.jobs[j].status = store.jobs[j].status ]_vars

\* C7: no job lists a (chat_id, message_id, thread_id) twice, and an
\* enqueue_many call whose subscriber is already on every job it matches
\* leaves those jobs' records as they are and, when it creates no job, the
\* whole queue file.
SubscribersDistinct ==
  /\ \A j \in DOMAIN store.jobs :
       \A i, k \in 1..Len(store.jobs[j].subscribers) :
         Triple(store.jobs[j].subscribers[i]) = Triple(store.jobs[j].subscribers[k])
           => i = k
  /\ \A inputs \in Inputs, subscriber \in Subscribers :
       LET free == JobIds \ DOMAIN store.jobs
           n == NewJobsNeeded(store, inputs)
           matched == { ActiveByUrl(store)[inputs[i]] : i \in 1..Len(inputs) } \ {0}
           known == { j \in matched :
                        Triple(subscriber) \in Triples(store.jobs[j].subscribers) }
       IN n <= Cardinality(free) =>
            \A ids \in IdDraws(free, n) :
              LET r == enqueue_many(store, inputs, subscriber, clock, clock, max_attempts, ids)
              IN /\ \A j \in known : r.store.jobs[j] = store.jobs[j]
                 /\ (n = 0 /\ known = matched) => r.store = store

\* an active job both callers have subscribed to
BothSubscribed ==
  \E j \in DOMAIN store.jobs :
    /\ store.jobs[j].status \in ACTIVE_STATUSES
    /\ Len(store.jobs[j].subscribers) = 2
    /\ store.queue_lines > 0

\* C8: claim_next finds a job iff one is queued; the job it returns is the
\* queued job least by (created_at, job_id), written running with attempts
\* one higher, claimed_by = worker_id and error = null; the other jobs stay.
FifoClaim ==
  LET r == claim_next(store, WORKER_ID, clock)
      queued == { j \in DOMAIN store.jobs : store.jobs[j].status = STATUS_QUEUED }
  IN /\ r.found <=> queued # {}
     /\ r.found =>
          /\ r.job_id \in queued
          /\ \A o \in queued \ {r.job_id} :
               \/ store.jobs[r.job_id].created_at < store.jobs[o].created_at
               \/ /\ store.jobs[r.job_id].created_at = store.jobs[o].created_at
                  /\ r.job_id < o
          /\ r.store.jobs[r.job_id] =
               [ store.jobs[r.job_id] EXCEPT !.status = STATUS_RUNNING,
                                             !.attempts = @ + 1,
                                             !.claimed_by = WORKER_ID,
                                             !.error = None,
                                             !.updated_at = clock ]
          /\ \A o \in DOMAIN store.jobs \ {r.job_id} : r.store.jobs[o] = store.jobs[o]
     /\ wpc \notin {"idle"} /\ store.jobs[wjob].status = STATUS_RUNNING =>
          \A o \in queued :
            store.jobs[o].attempts = 0 =>
              store.jobs[wjob].created_at <= store.jobs[o].created_at

\* the worker holds the older of two jobs and the younger is still queued
OlderClaimedFirst ==
  /\ wpc = "started_post"
  /\ \E o \in DOMAIN store.jobs :
       /\ store.jobs[o].status = STATUS_QUEUED
       /\ store.jobs[o].created_at > store.jobs[wjob].created_at

\* C9: started:k is emitted before the download of attempt k, a terminal
\* event of attempt k comes after started:k, a job done on its first attempt
\* has the events started:1, done:1 and no other, and no event of a job
\* follows its terminal event.
EventOrder ==
  /\ wpc = "download" =>
       \E i \in 1..Len(emitted) :
         emitted[i].event_id = EventId(wjob, "started", store.jobs[wjob].attempts)
  /\ \A i \in 1..Len(emitted) :
       IsTerminalEvent(emitted[i]) =>
         \E k \in 1..(i - 1) :
           emitted[k].event_id =
             EventId(emitted[i].job_id, "started", emitted[i].event_id[3])
  /\ \A j \in DOMAIN store.jobs :
       (\E i \in 1..Len(EventsOf(j)) : EventsOf(j)[i] = <<"done", 1>>)
         => EventsOf(j) = << <<"started", 1>>, <<"done", 1>> >>
  /\ \A i, k \in 1..Len(emitted) :
       (i < k /\ emitted[i].job_id = emitted[k].job_id) => ~IsTerminalEvent(emitted[i])

\* C10: an event's event_id is (job_id, status, attempts) of the job it is
\* about, and no two emitted events have the same event_id.
EventIdUnique ==
  /\ \A i \in 1..Len(emitted) :
       /\ emitted[i].event_id[1] = emitted[i].job_id
       /\ emitted[i].event_id[2] = emitted[i].status
  /\ wpc # "idle" =>
       wpayload.event_id = <<wjob, wpayload.status, store.jobs[wjob].attempts>>
  /\ \A i, k \in 1..Len(emitted) :
       emitted[i].event_id = emitted[k].event_id => i = k

\* one job has been started twice and another job has an event too
TwoStartsAndAnotherJob ==
  \E i, k, l \in 1..Len(emitted) :
    /\ i < k
    /\ emitted[i].job_id = emitted[k].job_id
    /\ emitted[i].status = "started"
    /\ emitted[k].status = "started"
    /\ emitted[l].job_id # emitted[i].job_id

\* the event_ids of the payloads waiting in _event_queue
QueuedEventIds == [ i \in 1..Len(bot.event_queue) |-> bot.event_queue[i].event_id ]
Served(t) == http[t].pc = "idle" /\ http[t].request # NoRequest
\* a request with the configured token, a JSON body, an event_id and a status
\* of the callback protocol
SPEC_STATUSES == {"done", "failed", "started"}
WellFormed(request) ==
  /\ request.token = CallbackSecret
  /\ request.json
  /\ request.payload.event_id # NoEventId
  /\ Lower(request.payload.status) \in SPEC_STATUSES
Occurrences(seq, x) == Cardinality({ i \in 1..Len(seq) : seq[i] = x })

\* C11: every well-formed request is answered 200, {ok:true} or
\* {ok:true, duplicate:true}; an event_id is queued once unless EventIdWindow
\* other new event_ids were queued in between; {ok:true} is the answer of the
\* request that queued the event and duplicate:true is answered only for an
\* event another request has queued or is queueing; what the consumer got and
\* what waits is what was queued.
CallbackIdempotent ==
  /\ \A t \in HttpThreads :
       (Served(t) /\ WellFormed(http[t].request))
         => http[t].response \in {Ok, Duplicate}
  /\ \A i, k \in 1..Len(accepted_run) :
       (i < k /\ accepted_run[i] = accepted_run[k])
         => Cardinality({ accepted_run[j] : j \in (i + 1)..(k - 1) }) >= EventIdWindow
  /\ \A t \in HttpThreads :
       LET event_id == http[t].request.payload.event_id
       IN /\ (Served(t) /\ http[t].response = Ok) =>
               /\ event_id \in SeqToSet(accepted_run)
               /\ Cardinality({ u \in HttpThreads :
                                  /\ Served(u)
                                  /\ http[u].response = Ok
                                  /\ http[u].request.payload.event_id = event_id })
                    <= Occurrences(accepted_run, event_id)
          /\ (Served(t) /\ http[t].response = Duplicate) =>
               \/ event_id \in SeqToSet(accepted_run)
               \/ \E u \in HttpThreads \ {t} :
                    /\ http[u].pc = "append"
                    /\ http[u].request.payload.event_id = event_id
  /\ dispatched_run \o QueuedEventIds = accepted_run

\* C12: a request with the right token and an event_id is answered 200 when
\* its status case-folds to done, failed or started, and 400 "invalid status"
\* otherwise.
StatusValidation ==
  \A t \in HttpThreads :
    LET request == http[t].request
    IN (/\ Served(t)
        /\ request.token = CallbackSecret
        /\ request.json
        /\ request.payload.event_id # NoEventId)
         => IF Lower(request.payload.status) \in SPEC_STATUSES
            THEN http[t].response \in {Ok, Duplicate}
            ELSE http[t].response = InvalidStatus

\* C13: a request whose token is not the secret is answered 401
\* "unauthorized" and never gets to the queue.
WrongTokenUnauthorized ==
  \A t \in HttpThreads :
    (http[t].request # NoRequest /\ http[t].request.token # CallbackSecret)
      => /\ http[t].pc = "idle"
         /\ http[t].response = Unauthorized

\* C18: at most one event is inside handle_job_event at a time, and the
\* events are dispatched in the order in which the request threads queued
\* them.
SerialInOrderDispatch ==
  /\ Cardinality(consumer.handling) <= 1
  /\ consumer.handling # {} => consumer.pc = "handling"
  /\ dispatched_run \o QueuedEventIds = accepted_run

\* two request threads have queued their events at the same time and the
\* consumer has dispatched both
ConcurrentRequestsDispatched ==
  /\ \A t \in HttpThreads :
       /\ http[t].pc = "signal"
       /\ http[t].request.payload.event_id \in SeqToSet(dispatched_run)
  /\ \E t, u \in HttpThreads :
       http[t].request.payload.event_id # http[u].request.payload.event_id

\* C19: the events queued are dispatched once each, in order, whether or not
\* handle_job_event raised for an earlier one, and every queued event is
\* dispatched in the end.
ConsumerResilient ==
  /\ [](dispatched_run \o QueuedEventIds = accepted_run)
  /\ [](\A i, k \in 1..Len(dispatched_run) :
          (dispatched_run[i] = dispatched_run[k] /\ i # k)
            => Occurrences(accepted_run, dispatched_run[i]) >= 2)
  /\ \A n \in 1..MaxAccepted :
       (Len(accepted_run) >= n) ~> (Len(dispatched_run) >= n)

\* handle_job_event raised for one event and a later one has been dispatched
DispatchedAfterRaise ==
  /\ Len(dispatched_run) >= 3
  /\ dispatched_run[2] \in consumer.raised
  /\ dispatched_run[1] \notin consumer.raised
  /\ dispatched_run[3] \notin consumer.raised
  /\ consumer.handling = {}

\* the queue file as the store would read it had it never been rewritten:
\* the same latest line per job_id, in the order of the first lines
NeverRewritten == [ store EXCEPT !.order = first_lines ]

\* C14: the rewrites of the queue file keep the job_ids and the record of
\* every job_id, one entry per job_id, and the next claim_next and the next
\* enqueue_many return and write the same as they would on the file that was
\* never rewritten.
CompactionEquivalent ==
  /\ SeqToSet(store.order) = DOMAIN store.jobs
  /\ SeqToSet(first_lines) = DOMAIN store.jobs
  /\ \A i, j \in 1..Len(store.order) : store.order[i] = store.order[j] => i = j
  /\ LET with == claim_next(store, WORKER_ID, clock)
         without == claim_next(NeverRewritten, WORKER_ID, clock)
     IN /\ with.found = without.found
        /\ with.job_id = without.job_id
        /\ with.store.jobs = without.store.jobs
  /\ \A inputs \in Inputs, subscriber \in Subscribers :
       NewJobsNeeded(store, inputs) <= Cardinality(JobIds \ DOMAIN store.jobs) =>
         \A ids \in IdDraws(JobIds \ DOMAIN store.jobs, NewJobsNeeded(store, inputs)) :
           LET with == enqueue_many(store, inputs, subscriber, clock, clock,
                                    max_attempts, ids)
               without == enqueue_many(NeverRewritten, inputs, subscriber, clock, clock,
                                       max_attempts, ids)
           IN /\ with.rows = without.rows
              /\ with.store.jobs = without.store.jobs

\* C15: a done job has a result and no error, a failed job has an error.
OutcomeFields ==
  \A id \in DOMAIN store.jobs :
    LET job == store.jobs[id]
    IN /\ job.status = STATUS_DONE => (job.result # None /\ job.error = None)
       /\ job.status = STATUS_FAILED => job.error # None

\* a job is done on its second attempt, after an attempt that left an error,
\* and another job has failed
DoneAfterErrorAndFailed ==
  \E a, b \in DOMAIN store.jobs :
    /\ store.jobs[a].status = STATUS_DONE
    /\ store.jobs[a].attempts > 1
    /\ store.jobs[b].status = STATUS_FAILED

JobsWithUrl(s, url) == { id \in DOMAIN s.jobs : s.jobs[id].normalized_url = url }

\* C16: when every job of a URL is done or failed, enqueue_many answers the
\* first item with that URL with a row deduplicated = FALSE and status queued
\* whose job_id is new; the new job is queued, with no attempts, the caller
\* as its one subscriber and an empty notification; the records of the
\* terminal jobs are as they were.
PostTerminalEnqueue ==
  \A inputs \in Inputs, subscriber \in Subscribers :
    NewJobsNeeded(store, inputs) <= Cardinality(JobIds \ DOMAIN store.jobs) =>
      \A ids \in IdDraws(JobIds \ DOMAIN store.jobs, NewJobsNeeded(store, inputs)) :
        LET r == enqueue_many(store, inputs, subscriber, clock, clock, max_attempts, ids)
        IN \A i \in 1..Len(inputs) :
             LET existing == JobsWithUrl(store, inputs[i])
             IN (/\ existing # {}
                 /\ \A id \in existing : store.jobs[id].status \in TERMINAL_STATUSES
                 /\ \A k \in 1..(i - 1) : inputs[k] # inputs[i])
                  => /\ ~r.rows[i].deduplicated
                     /\ r.rows[i].status = STATUS_QUEUED
                     /\ r.rows[i].job_id \notin DOMAIN store.jobs
                     /\ r.rows[i].job_id \in DOMAIN r.store.jobs
                     /\ LET job == r.store.jobs[r.rows[i].job_id]
                        IN /\ job.normalized_url = inputs[i]
                           /\ job.status = STATUS_QUEUED
                           /\ job.attempts = 0
                           /\ job.subscribers = <<subscriber>>
                           /\ job.notification = [ last_event_id |-> NoEventId,
                                                   callback_attempts |-> 0,
                                                   callback_error |-> None ]
                     /\ \A id \in existing : r.store.jobs[id] = store.jobs[id]

\* a URL was asked for again after its job had ended: the terminal job and
\* a later job for the same URL that nobody has claimed yet
EnqueuedAfterTerminal ==
  \E a, b \in DOMAIN store.jobs :
    /\ store.jobs[a].normalized_url = store.jobs[b].normalized_url
    /\ store.jobs[a].status \in TERMINAL_STATUSES
    /\ store.jobs[b].status = STATUS_QUEUED
    /\ store.jobs[b].attempts = 0
    /\ store.jobs[b].created_at > store.jobs[a].created_at

\* C17: enqueue_many returns one row per item, in the order of the items; a
\* row is deduplicated exactly when an active job with the item's URL was in
\* the store or an earlier item of the call has the same URL, and then it
\* carries the job_id and the status of such a job; any other row is queued
\* and carries a job_id that is new and that no other new row carries.
EnqueueRows ==
  \A inputs \in Inputs, subscriber \in Subscribers :
    NewJobsNeeded(store, inputs) <= Cardinality(JobIds \ DOMAIN store.jobs) =>
      \A ids \in IdDraws(JobIds \ DOMAIN store.jobs, NewJobsNeeded(store, inputs)) :
        LET r == enqueue_many(store, inputs, subscriber, clock, clock, max_attempts, ids)
        IN /\ Len(r.rows) = Len(inputs)
           /\ \A i \in 1..Len(inputs) :
                LET row == r.rows[i]
                    active == { id \in JobsWithUrl(store, inputs[i]) :
                                  store.jobs[id].status \in ACTIVE_STATUSES }
                    earlier == { k \in 1..(i - 1) : inputs[k] = inputs[i] }
                IN /\ row.normalized_url = inputs[i]
                   /\ row.deduplicated <=> (active # {} \/ earlier # {})
                   /\ (row.deduplicated /\ active # {}) =>
                        /\ row.job_id \in active
                        /\ row.status = store.jobs[row.job_id].status
                   /\ (row.deduplicated /\ active = {}) =>
                        /\ \A k \in earlier : row.job_id = r.rows[k].job_id
                        /\ row.status = STATUS_QUEUED
                   /\ ~row.deduplicated =>
                        /\ row.status = STATUS_QUEUED
                        /\ row.job_id \notin DOMAIN store.jobs
                        /\ \A k \in 1..Len(inputs) :
                             (k # i /\ ~r.rows[k].deduplicated) => r.rows[k].job_id # row.job_id

\* one call was answered with the rows of two new jobs, and a call of
\* another subscriber with the row of one of them, which was running
RowsOfTwoJobsAndADuplicate ==
  \E s1, s2 \in Subscribers :
    /\ s1 # s2
    /\ {<<s1, 1>>, <<s1, 2>>, <<s2, 1>>} \subseteq answered
    /\ DOMAIN store.jobs = {1, 2}
    /\ store.jobs[1].created_at = store.jobs[2].created_at
    /\ store.jobs[1].status = STATUS_RUNNING
    /\ Len(store.jobs[1].subscribers) = 2

\* C20: a POST of the worker, failed or not, leaves the store alone; when
\* every POST of an event has failed and the mark_notification of its
\* `finally` returns, the job differs from what it was in its notification
\* (last_event_id the event's id, callback_attempts one more, callback_error
\* the error of the last POST) and its updated_at only, no other job differs,
\* and after the started event the worker goes on to the download of the job.
FailedCallbackKeepsJob ==
  [][ /\ (wpc \in PostPcs /\ wattempt' # wattempt) => store' = store
      /\ (/\ wpc \in {"started_mark", "done_mark", "failed_mark"}
          /\ wpc' # wpc
          /\ faults' = faults
          /\ wcallback_error = CallbackError)
           => /\ wjob \in DOMAIN store.jobs
              /\ store'.jobs =
                   [ store.jobs EXCEPT
                       ![wjob] = [ @ EXCEPT
                          !.notification = [ last_event_id |-> wpayload.event_id,
                                             callback_attempts |-> @.callback_attempts + 1,
                                             callback_error |-> CallbackError ],
                          !.updated_at = clock ] ]
              /\ wpc = "started_mark" => (wpc' = "download" /\ wjob' = wjob)
    ]_vars

\* the download of a job has returned and the job is done although every
\* POST of its started event had failed
DoneAfterFailedStartedCallback ==
  \E id \in downloaded :
    /\ store.jobs[id].status = STATUS_DONE
    /\ store.jobs[id].notification.last_event_id = EventId(id, "started", store.jobs[id].attempts)
    /\ store.jobs[id].notification.callback_error = CallbackError

\* C30: mark_failed_or_retry on a job of the store writes the error and
\* queues the job again, answering queued, exactly when its attempts are
\* below its max_attempts; otherwise it writes failed, answers failed and
\* appends the failure row of the job to the results file; nothing else of
\* the job and no other job changes; for an unknown job_id it answers
\* (None, None) and writes nothing.
RetryDecision ==
  \A job_id \in JobIds :
    LET m == mark_failed_or_retry(store, job_id, Traceback, clock)
    IN IF job_id \notin DOMAIN store.jobs
       THEN /\ ~m.found
            /\ m.next_status = None
            /\ m.store = store
       ELSE LET current == store.jobs[job_id]
                retry == current.attempts < current.max_attempts
                written == m.store.jobs[job_id]
            IN /\ m.found
               /\ m.next_status = (IF retry THEN STATUS_QUEUED ELSE STATUS_FAILED)
               /\ written = [ current EXCEPT !.status = m.next_status,
                                              !.error = Traceback,
                                              !.updated_at = clock ]
               /\ \A other \in DOMAIN store.jobs \ {job_id} :
                    m.store.jobs[other] = store.jobs[other]
               /\ DOMAIN m.store.jobs = DOMAIN store.jobs
               /\ IF retry
                  THEN m.store.results_file = store.results_file
                  ELSE /\ m.store.results_file # <<>>
                       /\ \E i \in 1..Len(m.store.results_file) :
                            /\ m.store.results_file[i].job_id = job_id
                            /\ m.store.results_file[i].status = STATUS_FAILED
                            /\ m.store.results_file[i].updated_at = clock

\* one job has failed for good, with its row in the results file, and
\* another was queued again with the error of its failed attempt
FailedAndRequeued ==
  \E a, b \in DOMAIN store.jobs :
    /\ store.jobs[a].status = STATUS_FAILED
    /\ store.jobs[a].error = Traceback
    /\ \E i \in 1..Len(store.results_file) :
         store.results_file[i].job_id = a /\ store.results_file[i].status = STATUS_FAILED
    /\ store.jobs[b].status = STATUS_QUEUED
    /\ store.jobs[b].attempts > 0
    /\ store.jobs[b].error = Traceback

\* C22: a worker started with --once claims at most one job.
OnceClaimsOneJob == run_once => processed <= 1

HoldingPcs == {"locked", "serving", "stopping"}

\* C24: the processes past acquire_single_instance_lock are the one that
\* holds the lock, so there is at most one and the lock is free when there
\* is none; a process that asks for the lock while another holds it ends in
\* that very step with the error that names the lock file, and a process that
\* ended so does nothing but start over; the callback server is started by
\* the holder only.
SingleInstanceGuard ==
  [][ /\ \A b \in Bots : (instances'[b].pc \in HoldingPcs) <=> (instance_lock' = b)
      /\ \A b \in Bots :
           /\ (/\ instances[b].pc = "starting"
               /\ instance_lock \notin {0, b}
               /\ instances'[b] # instances[b]
               /\ instances'[b].pc # "stopped")
                => /\ instances'[b] = [ pc |-> "refused", error |-> AlreadyRunning ]
                   /\ instance_lock' = instance_lock
           /\ (instances[b].pc = "refused" /\ instances'[b] # instances[b])
                => instances'[b].pc = "starting"
           /\ (instances'[b].pc = "serving" /\ instances[b].pc # "serving")
                => instance_lock = b
    ]_vars

\* a process that was refused earlier now holds the lock and serves, after
\* the holder of then has gone, and another process has just been refused
RefusedThenServing ==
  \E a, b \in Bots :
    /\ a # b
    /\ instances[a].pc = "serving"
    /\ instances[a].error = AlreadyRunning
    /\ instance_lock = a
    /\ instances[b].pc = "refused"

\* the set an operation's file holds
Stored(op) == SeqToSet(FileOf(op))

\* what a call that is done returns, and what it leaves, told from the set
\* stored when it entered the lock
DoneAsSpecified(p) ==
  LET c == access_calls[p] IN
  /\ Stored(c.op) = c.before \cup c.arg
  /\ c.op \in {"authorize_chat", "add_user_to_whitelist"} => c.ret = (c.arg \cap c.before = {})
  /\ c.op = "add_users_to_whitelist" => c.ret = Cardinality(c.arg \ c.before)
  /\ \A u \in c.arg :
       /\ c.op = "authorize_chat" =>
            authorize_chat(authorized_chats_file, u) = [ file |-> authorized_chats_file, ret |-> FALSE ]
       /\ c.op = "add_user_to_whitelist" =>
            add_user_to_whitelist(whitelist_file, u) = [ file |-> whitelist_file, ret |-> FALSE ]
  /\ c.op = "add_users_to_whitelist" =>
       add_users_to_whitelist(whitelist_file, c.arg) = [ file |-> whitelist_file, ret |-> 0 ]

Handled(handler) == last_update' # last_update /\ last_update'.handler = handler

\* C26: handle_message calls the enqueue API only for a private chat whose
\* sender is whitelisted or a group or supergroup that is authorized, and in
\* the latter case the sender is in the whitelist by then; when the store
\* says a group is not authorized the message gets no reply and changes
\* nothing, when it says a private sender is not whitelisted the reply is
\* "Access denied."; neither is enqueued.
AccessGating ==
  [][ Handled("handle_message") =>
        LET u == last_update'
            whitelisted == u.user \in SeqToSet(whitelist_file)
            authorized == u.chat.id \in SeqToSet(authorized_chats_file)
        IN /\ u.enqueued # NotEnqueued =>
                \/ u.chat.type = "private" /\ whitelisted
                \/ u.chat.type \in {"group", "supergroup"} /\ authorized
                     /\ u.user \in u.enqueued.whitelist
           /\ (u.chat.type \in {"group", "supergroup"} /\ ~authorized /\ u.access = "ok") =>
                /\ u.replies = <<>>
                /\ u.enqueued = NotEnqueued
                /\ whitelist_file' = whitelist_file
           /\ (u.chat.type = "private" /\ ~whitelisted /\ u.access = "ok") =>
                /\ u.replies = << <<"Access denied.">> >>
                /\ u.enqueued = NotEnqueued
                /\ whitelist_file' = whitelist_file
           /\ (u.chat.type \in {"group", "supergroup"} /\ ~authorized) \/
              (u.chat.type = "private" /\ ~whitelisted) \/
              u.chat.type \notin {"private", "group", "supergroup"} =>
                u.enqueued = NotEnqueued
    ]_vars

\* a message with more links than the limit from a user nobody whitelisted,
\* in an authorized supergroup, has been enqueued with the sender in the
\* whitelist
GroupMessageEnqueued ==
  /\ last_update.handler = "handle_message"
  /\ last_update.chat.type = "supergroup"
  /\ last_update.user = 8
  /\ last_update.enqueued.urls = MAX_LINKS_PER_MESSAGE
  /\ 8 \in last_update.enqueued.whitelist
  /\ 7 \notin SeqToSet(whitelist_file)

\* /auth in a group with the one right argument by an administrator or creator
MayAuthorize(u) ==
  /\ u.chat.type \in {"group", "supergroup"}
  /\ Len(u.args) = 1
  /\ u.args[1] = auth_password
  /\ u.member \in {"administrator", "creator"}

\* C27: auth_command adds nothing but its own chat to the authorized set, and
\* that only in a group or supergroup, with exactly one argument equal to
\* the password, from a caller whose status is administrator or creator; in
\* every other case both files stay as they are.
AuthOnlyByAdmin ==
  [][ Handled("auth_command") =>
        LET u == last_update'
        IN /\ SeqToSet(authorized_chats_file') \subseteq SeqToSet(authorized_chats_file) \cup {u.chat.id}
           /\ authorized_chats_file' # authorized_chats_file => MayAuthorize(u)
           /\ ~MayAuthorize(u) =>
                /\ authorized_chats_file' = authorized_chats_file
                /\ whitelist_file' = whitelist_file
    ]_vars

\* a second chat has been authorized by its creator, and of its admins the
\* one that is no bot is in the whitelist
ChatAuthorized ==
  /\ last_update.handler = "auth_command"
  /\ last_update.member = "creator"
  /\ last_update.replies = << <<"Chat authorized.", 1, 2, 1>> >>
  /\ SeqToSet(authorized_chats_file) = {-100, -200}
  /\ SeqToSet(whitelist_file) = {7}

InLock == {"locked", "materialized", "appended", "returning"}

\* the stamps of the rows of a job in the order of the file
RowsOf(file, job_id) == SelectSeq(file, LAMBDA r : r.job_id = job_id)

\* C23: the processes between lock and unlock are the one holder of the
\* lock; only the holder changes the queue file, so what a process has
\* materialized is what the file holds until it appends; the row it appends
\* is derived from the last row of its job in the file; and in the file the
\* rows of a job stand in the order in which they were appended, each
\* derived from the one before it.
UnderOneLock ==
  [][ /\ \A p \in StoreProcs : (store_calls'[p].pc \in InLock) <=> (store_lock' = p)
      /\ queue_file' # queue_file =>
           /\ store_lock \in StoreProcs
           /\ store_calls'[store_lock] # store_calls[store_lock]
           /\ \A q \in StoreProcs \ {store_lock} : store_calls[q].pc \notin InLock
      /\ \A p \in StoreProcs :
           store_calls[p].pc = "materialized" =>
             /\ store_calls[p].jobs = _materialize_jobs_locked(queue_file)
             /\ Len(queue_file') > Len(queue_file) =>
                  LET row == queue_file'[Len(queue_file')]
                      before == RowsOf(queue_file, row.job_id)
                  IN /\ queue_file' = Append(queue_file, row)
                     /\ row.derived_from = IF before = <<>> THEN 0
                                           ELSE before[Len(before)].updated_at
      /\ \A id \in JobIds :
           LET rows == RowsOf(queue_file', id)
           IN \A i \in 2..Len(rows) :
                /\ rows[i - 1].updated_at < rows[i].updated_at
                /\ rows[i].derived_from = rows[i - 1].updated_at
    ]_vars

\* after a compaction the file holds three rows of one job, the last two
\* appended by different processes, while the other process waits for the lock
AppendedAfterCompaction ==
  \E p, q \in StoreProcs, id \in JobIds :
    /\ p # q
    /\ store_calls[p].pc = "appended"
    /\ store_calls[q].pc = "waiting"
    /\ mutations = MaxMutations
    /\ Len(queue_file) < mutations - 1
    /\ Len(RowsOf(queue_file, id)) >= 2

\* the host is the domain or one of its subdomains
IsDomainOrSubdomain(host, domain) ==
  \/ host = <<domain>>
  \/ /\ Len(host) >= 2
     /\ host[Len(host)] = domain
     /\ host[Len(host) - 1] \in {"vm.", "mobile.", "m.", "www."}

\* what the accept rules make of a URL: the platform, or "None"
PlatformByRule(url) ==
  LET host == _normalize_host(netloc(url))
      path == lower_all(path_or_root(url))
  IN IF str_lower(url.scheme) \notin {"http", "https"} THEN "None"
     ELSE IF IsDomainOrSubdomain(host, "tiktok.com") THEN "tiktok"
     ELSE IF /\ IsDomainOrSubdomain(host, "instagram.com")
             /\ \E i \in 1..(Len(path) - 2) :
                  path[i] = "/" /\ path[i + 1] \in {"reel", "p", "tv"} /\ path[i + 2] = "/"
          THEN "instagram"
     ELSE IF /\ join(host) \in {"x.com", "twitter.com", "mobile.twitter.com"}
             /\ TWITTER_STATUS_RE_match(path_or_root(url))
          THEN "x"
     ELSE "None"

\* C29: classify_url returns a platform only for an http or https URL whose
\* normalized host is tiktok.com or a subdomain of it, instagram.com or a
\* subdomain with /reel/, /p/ or /tv/ in the path, or x.com, twitter.com or
\* mobile.twitter.com with a status path; it rejects every other URL.
ClassifierAcceptRules ==
  classified.called =>
    IF PlatformByRule(classified.url) = "None"
    THEN classified.item = <<>>
    ELSE /\ classified.item # <<>>
         /\ classified.item[1].platform = PlatformByRule(classified.url)

\* the job the second of two requests is answered with, the first asking for
\* normalized_url a and the second for b, on an empty queue
SecondAnswer(a, b) ==
  LET first == enqueue_many(InitStore, <<a>>,
                            [chat_id |-> 1, message_id |-> 10, thread_id |-> NoThread],
                            0, 0, 1, <<1>>)
  IN enqueue_many(first.store, <<b>>,
                  [chat_id |-> 1, message_id |-> 10, thread_id |-> 7], 1, 1, 1, <<2>>).rows[1]

\* C28: a URL and the same URL with another scheme, case of the host,
\* "www.", port, userinfo, trailing slash, fragment, order of the query
\* parameters or tracking parameters are both supported, have the same
\* normalized_url, and a request for the one is answered with the active job
\* of the other; the same status on x.com and on twitter.com have different
\* normalized_urls and get a job each.
SameDedupKey ==
  [][ classified.called =>
        /\ classified.item # <<>>
        /\ classified'.item # <<>>
        /\ classified'.item[1].normalized_url = classified.item[1].normalized_url
        /\ SecondAnswer(classified.item[1].normalized_url, classified'.item[1].normalized_url)
             = [ job_id |-> 1, status |-> STATUS_QUEUED, deduplicated |-> TRUE,
                 normalized_url |-> classified.item[1].normalized_url ]
        /\ join(classified'.url.host) \in {"x.com", "twitter.com"} =>
             LET other == [ classified'.url EXCEPT
                              !.host = IF @ = <<"x.com">> THEN <<"twitter.com">>
                                       ELSE <<"x.com">> ]
                 mine == classified'.item[1].normalized_url
             IN /\ classify_url(other) # <<>>
                /\ classify_url(other)[1].normalized_url # mine
                /\ SecondAnswer(mine, classify_url(other)[1].normalized_url).job_id = 2
                /\ ~SecondAnswer(mine, classify_url(other)[1].normalized_url).deduplicated
    ]_vars

\* the TikTok URL written with another scheme, host case, "www.", port,
\* userinfo, trailing slash, fragment, its query parameters in the other
\* order and a tracking parameter between them
WrittenOtherwise ==
  /\ classified.url = [ scheme |-> "HTTP", userinfo |-> <<"u", ":", "p", "@">>,
                        www |-> <<"WWW.">>, host |-> <<"TikTok.com">>,
                        port |-> <<":", "443">>, path |-> <<"/", "p", "/", "abc", "/">>,
                        query |-> << <<"a", "1">>, <<"UTM_source", "y">>, <<"b", "2">> >>,
                        fragment |-> "frag", tail |-> "" ]
  /\ classified.item # <<>>
  /\ classified.item[1].normalized_url = "https://tiktok.com/p/abc?a=1&b=2"

RECURSIVE FirstOccurrences(_, _)
\* of the URLs that classify_url accepts, those whose normalized_url none of
\* the accepted URLs before them has, in the order of the list
FirstOccurrences(urls, i) ==
  IF i > Len(urls) THEN <<>>
  ELSE LET item == classify_url(urls[i])
       IN (IF /\ item # <<>>
              /\ \A j \in 1..(i - 1) :
                   classify_url(urls[j]) = <<>>
                     \/ classify_url(urls[j])[1].normalized_url # item[1].normalized_url
           THEN item ELSE <<>>)
            \o FirstOccurrences(urls, i + 1)

\* C21: a request none of whose urls classify_url accepts is answered 400
\* "No supported URLs found" and leaves the queue and the results log as
\* they are; any other request is answered with the rows of enqueue_many
\* called with the accepted urls, first occurrence per normalized_url only,
\* in the order of the request.
PostJobsParsing ==
  [][ LET urls == posted'.urls
      IN IF \A i \in 1..Len(urls) : classify_url(urls[i]) = <<>>
         THEN /\ posted'.status_code = 400
              /\ posted'.detail = "No supported URLs found"
              /\ store' = store
         ELSE /\ posted'.status_code = 200
              /\ posted'.parsed_urls = FirstOccurrences(urls, 1)
              /\ Len(posted'.rows) = Len(posted'.parsed_urls)
              /\ \A i \in 1..Len(posted'.rows) :
                   /\ posted'.rows[i].normalized_url = posted'.parsed_urls[i].normalized_url
                   /\ posted'.rows[i].job_id \in DOMAIN store'.jobs
                   /\ store'.jobs[posted'.rows[i].job_id].normalized_url
                        = posted'.parsed_urls[i].normalized_url
    ]_vars

\* a request with an unsupported URL, the TikTok URL and the same written in
\* another way has been answered with one row, the queue holding two jobs
OneRowOfThree ==
  /\ Len(posted.urls) = 3
  /\ classify_url(posted.urls[1]) = <<>>
  /\ classify_url(posted.urls[2]) # <<>>
  /\ classify_url(posted.urls[3]) # <<>>
  /\ posted.urls[2] # posted.urls[3]
  /\ posted.status_code = 200
  /\ Len(posted.rows) = 1
  /\ Len(store.order) = 2

\* C31: every emitted event gets at least one and at most RETRIES (3) POSTs,
\* none after one that succeeded, and then one call of mark_notification,
\* whose callback_error is None exactly when a POST succeeded and else the
\* error of the last POST; an event so marked is never posted or marked again.
CallbackRetryPolicy ==
  /\ [](\A i \in 1..Len(emitted) :
         LET e == emitted[i].event_id
             c == CallbackOf(e)
         IN /\ c.posts <= RETRIES
            /\ c.successes <= 1
            /\ c.successes = 1 => c.last_error = None
            /\ c.marks <= 1
            /\ c.marks = 1 =>
                 /\ c.posts >= 1
                 /\ (c.callback_error = None) <=> (c.successes = 1)
                 /\ c.callback_error = c.last_error
            /\ e # wpayload.event_id => c.marks = 1)
  /\ [][\A e \in DOMAIN callbacks :
          callbacks[e].marks = 1 => callbacks'[e] = callbacks[e]]_vars
  /\ [](DOMAIN callbacks \subseteq { emitted[i].event_id : i \in 1..Len(emitted) })

\* a done event went through on its second POST and a started event failed
\* three times, the last time otherwise than the time before; both are marked
RetriedAndGivenUp ==
  \E e, f \in DOMAIN callbacks :
    /\ e[2] = "done"
    /\ callbacks[e] = [ posts |-> 2, successes |-> 1, last_error |-> None, marks |-> 1,
                        callback_error |-> None ]
    /\ f[2] = "started"
    /\ callbacks[f] = [ posts |-> RETRIES, successes |-> 0, last_error |-> "ReadTimeout",
                        marks |-> 1, callback_error |-> "ReadTimeout" ]
    /\ f[1] \in DOMAIN store.jobs
    /\ store.jobs[f[1]].notification.callback_attempts >= 2

\* the last n elements of a sequence
LastOf(seq, n) ==
  IF Len(seq) <= n THEN seq ELSE SubSeq(seq, Len(seq) - n + 1, Len(seq))

\* C32: the set of seen event_ids holds exactly the elements of the order
\* queue, which are at most the window (5000) and are the event_ids last
\* accepted, oldest first: a new event_id in a full window puts out the
\* oldest one only, and a duplicate changes nothing; a request that passes
\* the checks is answered duplicate exactly when its event_id is among them.
DedupWindow ==
  /\ [](/\ bot.event_ids = SeqToSet(bot.event_id_order)
        /\ Len(bot.event_id_order) <= EventIdWindow
        /\ Cardinality(bot.event_ids) = Len(bot.event_id_order)
        /\ bot.event_id_order = LastOf(seen_log, EventIdWindow))
  /\ [][LET request == last_callback'.request
        IN (last_callback' # last_callback /\ last_callback'.code = 200) =>
             /\ last_callback'.duplicate <=>
                  request.payload.event_id \in SeqToSet(LastOf(seen_log, EventIdWindow))
             /\ last_callback'.duplicate =>
                  /\ bot'.event_ids = bot.event_ids
                  /\ bot'.event_id_order = bot.event_id_order
             /\ (~last_callback'.duplicate /\ Len(bot.event_id_order) = EventIdWindow) =>
                  /\ bot'.event_ids =
                       (bot.event_ids \ {Head(bot.event_id_order)})
                         \cup {request.payload.event_id}
                  /\ bot'.event_id_order =
                       Append(Tail(bot.event_id_order), request.payload.event_id)
     ]_vars

\* an event_id that the full window has put out is accepted a second time,
\* and puts out the oldest of the two that came after it
EvictedAcceptedAgain ==
  /\ Len(seen_log) = MaxSeen
  /\ seen_log[1] = seen_log[MaxSeen]
  /\ bot.event_id_order = <<seen_log[MaxSeen - 1], seen_log[MaxSeen]>>
  /\ last_callback.code = 200
  /\ ~last_callback.duplicate

\* the event_ids waiting in _event_queue
QueuedIds == { bot.event_queue[i].event_id : i \in 1..Len(bot.event_queue) }

\* C36: a request answered 401 or 400 leaves the seen set, its order and the
\* dispatch queue as they were; so a request answered duplicate carries an
\* event_id that an accepted request carried before, whatever was rejected;
\* a request with the token, an event_id and a status of the protocol whose
\* event_id is not in the window is accepted, and a request that is accepted
\* appends its payload to the queue, from which the consumer dispatches it.
RejectedConsumesNothing ==
  /\ [][LET request == last_callback'.request
            handled == last_callback' # last_callback
        IN /\ (handled /\ last_callback'.code \in {400, 401}) =>
                /\ bot' = bot
                /\ seen_log' = seen_log
           /\ (handled /\ last_callback'.code = 200 /\ last_callback'.duplicate) =>
                request.payload.event_id \in SeqToSet(seen_log)
           /\ (/\ handled
               /\ WellFormed(request)
               /\ request.payload.event_id \notin SeqToSet(LastOf(seen_log, EventIdWindow))) =>
                /\ last_callback'.code = 200
                /\ ~last_callback'.duplicate
           /\ (handled /\ last_callback'.code = 200 /\ ~last_callback'.duplicate) =>
                bot'.event_queue = Append(bot.event_queue, request.payload)
     ]_vars
  /\ [](\A e \in rejected \ SeqToSet(seen_log) : e \notin bot.event_ids \cup QueuedIds)
  /\ [](SeqToSet(seen_log) \subseteq QueuedIds \cup SeqToSet(dispatched))

\* the event_ids of the requests that pass the checks
AcceptableIds ==
  { r.payload.event_id :
      r \in { q \in Requests : q.json /\ request_checks(q.token, q.payload) = Passed } }

\* C35: an event in the queue is never left with the consumer waiting, the
\* signal down and no request thread about to raise it; and every event a
\* request thread has queued is dispatched in the end.
NoLostWakeUp ==
  /\ []((bot.event_queue # <<>> /\ consumer.pc = "wait")
         => (consumer.signal \/ \E t \in HttpThreads : http[t].pc = "signal"))
  /\ \A event_id \in AcceptableIds :
       (event_id \in SeqToSet(accepted_run)) ~> (event_id \in SeqToSet(dispatched_run))

\* the consumer has drained the queue and waits with the signal down, having
\* dispatched the event of a request thread that has not raised the signal
\* yet and the event of another that has answered 200
DrainedBeforeSignal ==
  /\ consumer.pc = "wait"
  /\ ~consumer.signal
  /\ bot.event_queue = <<>>
  /\ consumer.handling = {}
  /\ \E t, u \in HttpThreads :
       /\ http[t].pc = "signal"
       /\ http[t].request.payload.event_id \in SeqToSet(dispatched_run)
       /\ http[u].pc = "idle"
       /\ http[u].response = Ok
       /\ http[u].request.payload.event_id \in SeqToSet(dispatched_run)
       /\ http[u].request.payload.event_id # http[t].request.payload.event_id

\* the places of the records of job_id in the results file
ResultsOf(job_id) ==
  { i \in 1..Len(store.results_file) : store.results_file[i].job_id = job_id }

\* C33: every record of the results file is a done or a failed one; a job is
\* done or failed exactly when the results file has a record of it, and the
\* last of its records has the status of the job, with the job's result when
\* done and with its error, attempts and max_attempts when failed.
ResultsLogConsistent ==
  /\ \A i \in 1..Len(store.results_file) :
       store.results_file[i].status \in TERMINAL_STATUSES
  /\ \A job_id \in DOMAIN store.jobs :
       LET job == store.jobs[job_id]
       IN /\ (job.status \in TERMINAL_STATUSES) <=> (ResultsOf(job_id) # {})
          /\ ResultsOf(job_id) # {} =>
               LET last == store.results_file[
                             CHOOSE i \in ResultsOf(job_id) : \A k \in ResultsOf(job_id) : k <= i]
               IN /\ last.status = job.status
                  /\ last.status = STATUS_DONE => last.result = job.result
                  /\ last.status = STATUS_FAILED =>
                       /\ last.error = job.error
                       /\ last.attempts = job.attempts
                       /\ last.max_attempts = job.max_attempts

HoldPcs == {"started", "download"}

\* C37: the job claim_next returns was queued, and no worker holds it then
\* (none is between its claim of the job and its mark_done or
\* mark_failed_or_retry); no two claims have returned the same job with the
\* same attempts, so no two workers hold one job at one attempt number.
ExclusiveClaim ==
  /\ [][\A w \in Workers :
          (workers[w].pc = "idle" /\ workers'[w].pc = "started") =>
            LET job_id == workers'[w].job_id
            IN /\ job_id \in DOMAIN store.jobs
               /\ store.jobs[job_id].status = STATUS_QUEUED
               /\ store'.jobs[job_id].status = STATUS_RUNNING
               /\ workers'[w].attempts = store.jobs[job_id].attempts + 1
               /\ \A v \in Workers :
                    ~(workers[v].pc \in HoldPcs /\ workers[v].job_id = job_id)]_vars
  /\ [](\A a, b \in claim_log : (a[2] = b[2] /\ a[3] = b[3]) => a = b)
  /\ [](\A w, v \in Workers :
          (w # v /\ workers[w].pc \in HoldPcs /\ workers[v].pc \in HoldPcs)
            => workers[w].job_id # workers[v].job_id)

\* the two workers hold the two jobs, one of them at its second attempt,
\* which the other worker made the first time
HeldByBothInTurn ==
  \E w, v \in Workers :
    /\ w # v
    /\ workers[w] = [ pc |-> "download", job_id |-> 1, attempts |-> 2 ]
    /\ workers[v].pc = "download"
    /\ workers[v].job_id = 2
    /\ <<v, 1, 1>> \in claim_log

\* every job of the queue file is done or failed
AllEnded ==
  \A job_id \in DOMAIN store.jobs : store.jobs[job_id].status \in TERMINAL_STATUSES

HeldByAWorker(job_id) ==
  \E w \in Workers : workers[w].pc # "idle" /\ workers[w].job_id = job_id

LeftRunning(job_id) ==
  /\ job_id \in DOMAIN store.jobs
  /\ store.jobs[job_id].status = STATUS_RUNNING
  /\ ~HeldByAWorker(job_id)

StaysLeftRunning ==
  [][\A job_id \in JobIds :
       LeftRunning(job_id)
         => /\ LeftRunning(job_id)'
            /\ store'.jobs[job_id].attempts = store.jobs[job_id].attempts
            /\ \A other \in DOMAIN store'.jobs \ DOMAIN store.jobs :
                 store'.jobs[other].normalized_url # store.jobs[job_id].normalized_url]_vars

DeduplicatedOntoIt ==
  \A job_id \in JobIds :
    LeftRunning(job_id)
      => ActiveByUrl(store)[store.jobs[job_id].normalized_url] = job_id

\* C39: a job that is running while no worker process holds it stays so at
\* every step: no claim returns it, no worker gets to its done or failed
\* callback, no job is created for its normalized_url, and the lookup of
\* enqueue_many for its normalized_url finds it.
NoRecovery == StaysLeftRunning /\ []DeduplicatedOntoIt

\* the job_ids claim_next has returned, in order: one started payload a claim
RECURSIVE ClaimedOf(_)
ClaimedOf(events) ==
  IF events = <<>> THEN <<>>
  ELSE IF Head(events).status = "started"
       THEN <<Head(events).job_id>> \o ClaimedOf(Tail(events))
       ELSE ClaimedOf(Tail(events))

Claimed == ClaimedOf(emitted)

\* created_at never changes, and a claim made while a job with attempts
\* behind it is queued returns no job created after that one
RetryAtHead ==
  /\ [][\A job_id \in DOMAIN store.jobs :
          /\ job_id \in DOMAIN store'.jobs
          /\ store'.jobs[job_id].created_at = store.jobs[job_id].created_at]_vars
  /\ [][Len(Claimed') > Len(Claimed) =>
          \A job_id \in DOMAIN store.jobs :
            store.jobs[job_id].status = STATUS_QUEUED /\ store.jobs[job_id].attempts >= 1
              => store.jobs[Claimed'[Len(Claimed')]].created_at
                   <= store.jobs[job_id].created_at]_vars

\* no job created later is claimed between two attempts of a job
NoLaterJobBetweenAttempts ==
  \A i, j, k \in 1..Len(Claimed) :
    i < j /\ j < k /\ Claimed[i] = Claimed[k]
      => store.jobs[Claimed[j]].created_at <= store.jobs[Claimed[i]].created_at

\* the attempts of a job are claimed one right after the other
AttemptsConsecutive ==
  \A i, j, k \in 1..Len(Claimed) :
    i < j /\ j < k /\ Claimed[i] = Claimed[k] => Claimed[j] = Claimed[i]

\* C40: a re-queued job keeps created_at and is claimed before any queued
\* job created later, and the attempts of a job are claimed one right after
\* the other.
RetriesAtHeadConsecutive ==
  RetryAtHead /\ []NoLaterJobBetweenAttempts /\ []AttemptsConsecutive

\* C40, amended: a re-queued job keeps created_at and is claimed before any
\* queued job created later; between two attempts of a job no job created
\* later is claimed, while a job with an earlier created_at that is written
\* in between is.
RetriesAtHead ==
  RetryAtHead /\ []NoLaterJobBetweenAttempts

\* a job written with an earlier created_at was claimed between the two
\* attempts of a job
EarlierJobBetweenAttempts ==
  \E i, j, k \in 1..Len(Claimed) :
    /\ i < j /\ j < k
    /\ Claimed[i] = Claimed[k]
    /\ Claimed[j] # Claimed[i]
    /\ store.jobs[Claimed[j]].created_at < store.jobs[Claimed[i]].created_at

====
